---- MODULE Spec2Model ----
(***************************************************************************)
(* Model of the crypto trading bot's execution engine                      *)
(* (tradingagents/executors/binance_executor.py) and of the configuration  *)
(* value that gates it (tradingagents/crypto_config.py), of the retry       *)
(* decorator of the LLM calls (tradingagents/utils/llm_utils.py) and of    *)
(* the agent graphs (tradingagents/graph).                                 *)
(*                                                                         *)
(* Amounts are counted in whole lots.  The exchange account is in hedge    *)
(* mode: it holds an independent long size and short size for the symbol,  *)
(* and lists the two position entries in an order of its own choosing.     *)
(* Python's None / True / False are the strings "None" / "True" / "False". *)
(***************************************************************************)
EXTENDS Integers, Sequences, FiniteSets, TLC

VARIABLES
    pc,             \* "start", "configured" (config read), "ready" (executor
                    \* constructed), "returned" (an operation has returned and
                    \* its caller holds the result), "key_error"
    env,            \* value of the BINANCE_TEST_MODE environment variable
    config,         \* config['binance_test_mode'] ("absent": key not in the dict)
    ctor_arg,       \* the test_mode argument given to BinanceExecutor.__init__
    test_mode,      \* self.test_mode
    exchange,       \* the account's position on the symbol: [long, short]
    listedFirst,    \* the side whose entry fetch_positions lists first
    trade_history,  \* self.trade_history
    call,           \* the last operation called: its inputs, the position it
                    \* started from, the exchange calls it made and its result
    retry,          \* one call of a function wrapped by llm_retry: the
                    \* decorator's arguments, the loop's locals, the
                    \* invocations made, the delays slept and the outcome
    simple,         \* one run of SimpleCryptoTradingGraph's graph: the node
                    \* to run next and the graph state (messages, reports)
    graph,          \* a CryptoTradingAgentsGraph and one run of its graph:
                    \* the configured rounds, the routing component, the
                    \* node to run next, the debate and risk-review states
    handoff,        \* a decision text handed to execution: the graph's
                    \* auto_execute and position_size, the text, the action
                    \* extracted from it and the executor method called
    run,            \* the calls of propagate on one CryptoTradingAgentsGraph:
                    \* the stage whose node is running, its LLM invocations,
                    \* the error raised, curr_state and log_states_dict
    setup,          \* the exchange-account setup made by the constructor of
                    \* CryptoTradingAgentsGraph: the calls that went through,
                    \* what setup_exchange returned, whether the graph was built
    callers         \* the callers that run execute_trade on the same executor
                    \* at the same time: for each its position in the method,
                    \* the position it read and the orders it has placed

executorVars == <<pc, env, config, ctor_arg, test_mode, exchange, listedFirst,
                  trade_history, call>>

pipelineVars == <<retry, simple, graph, handoff, run, setup, callers>>

vars == <<executorVars, pipelineVars>>

----------------------------------------------------------------------------
(* Bounds *)

MaxPos == 2        \* largest position size per side, in lots
MaxAmount == 2     \* largest order amount, in lots
MaxHistory == 1    \* calls are explored while trade_history is shorter
MaxFailures == 1   \* most exchange calls that raise during one operation
MaxRetries == 2    \* largest max_retries given to llm_retry
MaxToolCalls == 1  \* most tool calls one LLM response requests
MaxMessages == 3   \* the graph state keeps its last MaxMessages messages
MaxRounds == 2     \* largest number of debate or risk-discussion rounds
MaxText == 2       \* most segments (words or markers) of a decision text
MaxRuns == 2       \* most calls of propagate on one graph
MaxCallers == 2    \* most callers inside execute_trade at the same time

----------------------------------------------------------------------------
(* Values *)

Sides == {"long", "short"}

KnownActions == {"BUY", "SELL", "HOLD", "CLOSE_LONG", "CLOSE_SHORT"}

\* "CLOSE" and "buy" stand for the action values outside the known five
ActionValues == KnownActions \cup {"CLOSE", "buy"}

EnvValues == {"unset", "true", "TRUE", "false", ""}

ConfigValues == {"absent", "None", "True", "False"}

ArgValues == {"None", "True", "False"}

\* setup_exchange has not been called and no graph has been built
SetupIdle ==
    [called |-> FALSE, failed |-> {}, hedge_mode |-> FALSE,
     leverage_set |-> FALSE, balance_read |-> FALSE, returned |-> "none",
     raised |-> FALSE, graph_built |-> FALSE]

\* A CryptoTradingAgentsGraph on which propagate has not been called
\* (curr_state holds the number of the run whose final state it is, 0: None;
\* log_states_dict and log_files hold the runs, one per trade_date, that have
\* an entry in the dictionary and a JSON file on disk)
RunIdle ==
    [phase |-> "constructed", runs |-> 0, stage |-> 0, ran |-> << >>,
     invocations |-> 0, error |-> << >>,
     final_trade_decision |-> [written |-> FALSE, text |-> << >>],
     curr_state |-> 0, log_states_dict |-> {}, log_files |-> {},
     pre |-> [curr_state |-> 0, exchange |-> [long |-> 0, short |-> 0],
              trade_history |-> << >>]]

\* No decision has been handed to execution
HandoffIdle ==
    [caller |-> "none", auto_execute |-> FALSE, position_size |-> 1,
     decision |-> << >>, action |-> "none", method |-> "none",
     error |-> "none", pre |-> [long |-> 0, short |-> 0]]

\* No CryptoTradingAgentsGraph has been constructed
GraphIdle ==
    [node |-> "idle", selected |-> << >>, stage |-> 0,
     max_debate_rounds |-> 0, max_risk_discuss_rounds |-> 0,
     conditional_logic |-> [max_debate_rounds |-> 0,
                            max_risk_discuss_rounds |-> 0],
     tool_calls |-> 0,
     investment_debate_state |-> [count |-> 0, current_response |-> ""],
     risk_debate_state |-> [count |-> 0, latest_speaker |-> ""],
     speakers |-> << >>,
     market_report |-> "", crypto_analysis_report |-> "",
     trader_investment_plan |-> "",
     final_trade_decision |-> [written |-> FALSE, text |-> << >>]]

\* No run of the simple graph is in progress
SimpleIdle ==
    [node |-> "idle", messages |-> << >>, market_report |-> "",
     crypto_analysis_report |-> "", final_trade_decision |-> ""]

\* No call of a function wrapped by llm_retry is in progress
RetryIdle ==
    [pc |-> "idle", max_retries |-> 0, base_delay |-> 0, backoff_factor |-> 1,
     attempt |-> 0, invocations |-> 0, delays |-> << >>, raised |-> << >>,
     last_exception |-> << >>, error |-> << >>]

None == [side |-> "None", size |-> 0]

IsNone(p) == p.side = "None"

\* No caller is inside execute_trade
CallerIdle ==
    [pc |-> "idle", amount |-> 0, current_position |-> None,
     planned |-> << >>, orders |-> << >>, before |-> {}, success |-> FALSE,
     message |-> "none"]

CallersIdle == [p \in 1..MaxCallers |-> CallerIdle]

Abs(n) == IF n < 0 THEN -n ELSE n

Min(a, b) == IF a < b THEN a ELSE b

\* Python truthiness of a None / True / False value
Truthy(v) == v = "True"

\* str.lower() on the environment values
Lower(s) == IF s = "TRUE" THEN "true" ELSE s

----------------------------------------------------------------------------
(* Configuration and construction *)

\* os.getenv("BINANCE_TEST_MODE", "true").lower() == "true"
GetCryptoConfigTestMode(e) ==
    LET raw == IF e = "unset" THEN "true" ELSE e
    IN IF Lower(raw) = "true" THEN "True" ELSE "False"

\* dict.get(key, default): the default only when the key is absent
ConfigGet(cfg, default) == IF cfg = "absent" THEN default ELSE cfg

\* BinanceExecutor.__init__: self.test_mode
InitTestMode(cfg, arg) ==
    IF arg = "None" THEN ConfigGet(cfg, "True") ELSE arg

\* The gate left out
TestModeGateOff(tm) == FALSE

\* `if self.test_mode:` in execute_trade and close_position
TestModeGate(tm) == Truthy(tm)

----------------------------------------------------------------------------
(* The exchange *)

Order(type, side, size, positionSide) ==
    [type |-> type, side |-> side, size |-> size,
     positionSide |-> positionSide, accepted |-> TRUE]

\* exchange.fetch_positions([symbol]): one entry per side, amounts signed
FetchPositions(ex, first) ==
    IF first = "long"
    THEN << [positionAmt |-> ex.long], [positionAmt |-> -ex.short] >>
    ELSE << [positionAmt |-> -ex.short], [positionAmt |-> ex.long] >>

\* The effect of one accepted order on the account
ApplyOrder(ex, o) ==
    IF o.type # "MARKET" \/ ~o.accepted THEN ex
    ELSE IF o.positionSide = "LONG"
         THEN (IF o.side = "buy"
               THEN [ex EXCEPT !.long = @ + o.size]
               ELSE [ex EXCEPT !.long = @ - Min(@, o.size)])
    ELSE IF o.positionSide = "SHORT"
         THEN (IF o.side = "sell"
               THEN [ex EXCEPT !.short = @ + o.size]
               ELSE [ex EXCEPT !.short = @ - Min(@, o.size)])
    \* no positionSide, reduceOnly: reduces the side the order is against
    ELSE (IF o.side = "sell"
          THEN [ex EXCEPT !.long = @ - Min(@, o.size)]
          ELSE [ex EXCEPT !.short = @ - Min(@, o.size)])

RECURSIVE ApplyAll(_, _)
ApplyAll(ex, os) ==
    IF os = <<>> THEN ex ELSE ApplyAll(ApplyOrder(ex, Head(os)), Tail(os))

\* Sends the planned orders one after the other; the failAt-th raises and
\* ends the sequence.  log: the order calls made; raised: whether one raised.
SendOrders(ex, planned, failAt) ==
    LET n == Len(planned)
        k == IF failAt \in 1..n THEN failAt ELSE n + 1
        log == [i \in 1..Min(k, n) |-> [planned[i] EXCEPT !.accepted = (i < k)]]
    IN [ex |-> ApplyAll(ex, log), log |-> log, raised |-> (k <= n)]

----------------------------------------------------------------------------
(* BinanceExecutor.get_current_position *)

GetCurrentPositionSeesNothing(positions, raises) == None

\* The first listed entry with a nonzero amount, None when there is none or
\* when fetch_positions raises (the exception is swallowed)
GetCurrentPosition(positions, raises) ==
    IF raises THEN None
    ELSE LET nz == {i \in 1..Len(positions) : positions[i].positionAmt # 0}
         IN IF nz = {} THEN None
            ELSE LET i == CHOOSE j \in nz : \A m \in nz : j <= m
                     amt == positions[i].positionAmt
                 IN [side |-> IF amt > 0 THEN "long" ELSE "short",
                     size |-> Abs(amt)]

----------------------------------------------------------------------------
(* BinanceExecutor.execute_trade: the action dispatch *)

MarketBuy(size, positionSide) == Order("MARKET", "buy", size, positionSide)

MarketSell(size, positionSide) == Order("MARKET", "sell", size, positionSide)

\* Each branch yields the market orders it places, in order, and `ret`: the
\* message of the result it returns at once, "none" when it goes on to the
\* order bookkeeping.

\* BUY with the two orders in the wrong order
PlanBuyOpenFirst(cp, amount) ==
    LET close == IF ~IsNone(cp) /\ cp.side = "short"
                 THEN << MarketBuy(cp.size, "SHORT") >> ELSE << >>
    IN IF IsNone(cp) \/ cp.side # "long"
       THEN [orders |-> << MarketBuy(amount, "LONG") >> \o close, ret |-> "none"]
       ELSE [orders |-> close, ret |-> "already_long"]

\* BUY whose open test reads `current_position and side != 'long'`
PlanBuyNeedsPosition(cp, amount) ==
    LET close == IF ~IsNone(cp) /\ cp.side = "short"
                 THEN << MarketBuy(cp.size, "SHORT") >> ELSE << >>
    IN IF ~IsNone(cp) /\ cp.side # "long"
       THEN [orders |-> close \o << MarketBuy(amount, "LONG") >>, ret |-> "none"]
       ELSE [orders |-> close, ret |-> "already_long"]

PlanBuy(cp, amount) ==
    LET close == IF ~IsNone(cp) /\ cp.side = "short"
                 THEN << MarketBuy(cp.size, "SHORT") >> ELSE << >>
    IN IF IsNone(cp) \/ cp.side # "long"
       THEN [orders |-> close \o << MarketBuy(amount, "LONG") >>, ret |-> "none"]
       ELSE [orders |-> close, ret |-> "already_long"]

PlanSell(cp, amount) ==
    LET close == IF ~IsNone(cp) /\ cp.side = "long"
                 THEN << MarketSell(cp.size, "LONG") >> ELSE << >>
    IN IF IsNone(cp) \/ cp.side # "short"
       THEN [orders |-> close \o << MarketSell(amount, "SHORT") >>, ret |-> "none"]
       ELSE [orders |-> close, ret |-> "already_short"]

PlanCloseLong(cp) ==
    IF ~IsNone(cp) /\ cp.side = "long"
    THEN [orders |-> << MarketSell(cp.size, "LONG") >>, ret |-> "none"]
    ELSE [orders |-> << >>, ret |-> "no_long_to_close"]

PlanCloseShort(cp) ==
    IF ~IsNone(cp) /\ cp.side = "short"
    THEN [orders |-> << MarketBuy(cp.size, "SHORT") >>, ret |-> "none"]
    ELSE [orders |-> << >>, ret |-> "no_short_to_close"]

\* A dispatch whose final else falls into the HOLD branch
PlanUnknownAsHold(cp, action, amount) ==
    IF action = "BUY" THEN PlanBuy(cp, amount)
    ELSE IF action = "SELL" THEN PlanSell(cp, amount)
    ELSE IF action = "CLOSE_LONG" THEN PlanCloseLong(cp)
    ELSE IF action = "CLOSE_SHORT" THEN PlanCloseShort(cp)
    ELSE [orders |-> << >>, ret |-> "hold"]

Plan(cp, action, amount) ==
    IF action = "BUY" THEN PlanBuy(cp, amount)
    ELSE IF action = "SELL" THEN PlanSell(cp, amount)
    ELSE IF action = "CLOSE_LONG" THEN PlanCloseLong(cp)
    ELSE IF action = "CLOSE_SHORT" THEN PlanCloseShort(cp)
    ELSE IF action = "HOLD" THEN [orders |-> << >>, ret |-> "hold"]
    ELSE [orders |-> << >>, ret |-> "unknown_action"]

\* result['success'] of a result returned from inside the dispatch: only the
\* HOLD branch sets it before returning
EarlySuccess(ret) == ret = "hold"

----------------------------------------------------------------------------
(* BinanceExecutor._set_stop_orders *)

\* Queries the position again and places one conditional order per supplied
\* level, sized to that position and tagged to its side.  Every exception is
\* caught inside.  log: the order calls made.
SetStopOrders(ex, first, stop_loss, take_profit, queryRaises, failAt) ==
    LET cp == GetCurrentPosition(FetchPositions(ex, first), queryRaises)
        closeSide == IF cp.side = "long" THEN "sell" ELSE "buy"
        tag == IF cp.side = "long" THEN "LONG" ELSE "SHORT"
        planned ==
            (IF stop_loss
             THEN << Order("STOP_MARKET", closeSide, cp.size, tag) >> ELSE << >>)
            \o (IF take_profit
                THEN << Order("TAKE_PROFIT_MARKET", closeSide, cp.size, tag) >>
                ELSE << >>)
        sent == SendOrders(ex, planned, failAt)
    IN IF IsNone(cp)
       THEN [log |-> << >>, raised |-> FALSE]
       ELSE [log |-> sent.log, raised |-> sent.raised]

----------------------------------------------------------------------------
(* BinanceExecutor.execute_trade *)

\* raised: an exception left execute_trade instead of the result
BaseResult(tm, action, amount) ==
    [success |-> FALSE, action |-> action, symbol |-> "BTC/USDT",
     amount |-> amount, timestamp |-> "now",
     message |-> "none", order_id |-> "none", new_position |-> None,
     test_mode |-> tm, raised |-> FALSE]

\* execute_trade without its `except Exception`
OrderFailureEscapes(result) == [result EXCEPT !.raised = TRUE]

\* `except Exception as e:` of execute_trade: the message is set, success is
\* left as it is, the result is returned
OrderFailureResult(result) == [result EXCEPT !.message = "order_failed"]

\* _set_stop_orders without its own try: a refused conditional order lands
\* in execute_trade's `except`, before the trade is recorded
RecordTradeUnlessStopsRaised(done, hist, stopsRaised) ==
    IF stopsRaised
    THEN [result |-> OrderFailureResult(done), history |-> hist]
    ELSE [result |-> done,
          history |-> Append(hist, [op |-> "execute_trade", action |-> done.action])]

\* The bookkeeping after the stop orders: the result stands and a copy of
\* it is appended to trade_history, whatever _set_stop_orders met
RecordTrade(done, hist, stopsRaised) ==
    [result |-> done,
     history |-> Append(hist, [op |-> "execute_trade", action |-> done.action])]

\* The whole call.  qf: the position queries that raise; failAt: the market
\* order that raises (0: none); stopFailAt: the conditional order that raises.
\* Yields the account afterwards, the order calls made, the number of
\* position queries made, the FailPoints hit, the result and trade_history.
ExecuteTradeOp(tm, ex, first, hist, action, amount, stop_loss, take_profit, qf, failAt, stopFailAt) ==
    LET result == BaseResult(tm, action, amount)
        qfail == IF "initial_query" \in qf THEN {"initial_query"} ELSE {}
        cp == GetCurrentPosition(FetchPositions(ex, first), "initial_query" \in qf)
        plan == Plan(cp, action, amount)
        sent == SendOrders(ex, plan.orders, failAt)
        withStops == stop_loss \/ take_profit
        stops == IF withStops
                 THEN SetStopOrders(sent.ex, first, stop_loss, take_profit,
                                    "stops_query" \in qf, stopFailAt)
                 ELSE [log |-> << >>, raised |-> FALSE]
        new_position ==
            GetCurrentPosition(FetchPositions(sent.ex, first), "final_query" \in qf)
        done == [result EXCEPT !.success = TRUE, !.order_id = "id",
                               !.message = "order_executed",
                               !.new_position = new_position]
        recorded == RecordTrade(done, hist, stops.raised)
    IN IF TestModeGate(tm)
       THEN [ex |-> ex, orders |-> << >>, queries |-> 1, failed |-> qfail,
             result |-> [result EXCEPT !.success = TRUE,
                                       !.message = "test_mode_simulated"],
             history |-> hist]
       ELSE IF sent.raised
       THEN \* except Exception: the message is set, success stays False
            [ex |-> sent.ex, orders |-> sent.log, queries |-> 1,
             failed |-> qfail \cup {"market_order"},
             result |-> OrderFailureResult(result),
             history |-> hist]
       ELSE IF plan.ret # "none"
       THEN [ex |-> sent.ex, orders |-> sent.log, queries |-> 1, failed |-> qfail,
             result |-> [result EXCEPT !.success = EarlySuccess(plan.ret),
                                       !.message = plan.ret],
             history |-> hist]
       ELSE IF sent.log = << >>
       THEN \* `if order:` is false
            [ex |-> sent.ex, orders |-> << >>, queries |-> 1, failed |-> qfail,
             result |-> result, history |-> hist]
       ELSE [ex |-> sent.ex,
             orders |-> sent.log \o stops.log,
             queries |-> IF withStops THEN 3 ELSE 2,
             failed |-> qfail
                        \cup (IF withStops /\ "stops_query" \in qf
                              THEN {"stops_query"} ELSE {})
                        \cup (IF stops.raised THEN {"stop_order"} ELSE {})
                        \cup (IF "final_query" \in qf THEN {"final_query"} ELSE {}),
             result |-> recorded.result,
             history |-> recorded.history]

----------------------------------------------------------------------------
(* BinanceExecutor.close_position *)

ClosePositionOp(tm, ex, first, hist, queryRaises, orderRaises) ==
    LET position == GetCurrentPosition(FetchPositions(ex, first), queryRaises)
        qfail == IF queryRaises THEN {"initial_query"} ELSE {}
        close_side == IF position.side = "long" THEN "sell" ELSE "buy"
        sent == SendOrders(ex, << Order("MARKET", close_side, position.size, "NONE") >>,
                           IF orderRaises THEN 1 ELSE 0)
        entry == [op |-> "close_position",
                  action |-> IF position.side = "long" THEN "close_long"
                             ELSE "close_short"]
    IN IF IsNone(position)
       THEN [ex |-> ex, orders |-> << >>, queries |-> 1, failed |-> qfail,
             result |-> [status |-> "info"], history |-> hist]
       ELSE IF TestModeGate(tm)
       THEN [ex |-> ex, orders |-> << >>, queries |-> 1, failed |-> qfail,
             result |-> [status |-> "test"], history |-> Append(hist, entry)]
       ELSE IF sent.raised
       THEN [ex |-> sent.ex, orders |-> sent.log, queries |-> 1,
             failed |-> qfail \cup {"market_order"},
             result |-> [status |-> "error"], history |-> hist]
       ELSE [ex |-> sent.ex, orders |-> sent.log, queries |-> 1, failed |-> qfail,
             result |-> [status |-> "success"], history |-> Append(hist, entry)]

----------------------------------------------------------------------------
(* BinanceExecutor.close_all_positions *)

\* Queries the position, then calls execute_trade with CLOSE_LONG or
\* CLOSE_SHORT and that position's size; returns nothing.
CloseAllPositionsOp(tm, ex, first, hist, queryRaises, qf, failAt) ==
    LET position == GetCurrentPosition(FetchPositions(ex, first), queryRaises)
        qfail == IF queryRaises THEN {"initial_query"} ELSE {}
        inner == ExecuteTradeOp(tm, ex, first, hist,
                                IF position.side = "long" THEN "CLOSE_LONG"
                                ELSE "CLOSE_SHORT",
                                position.size, FALSE, FALSE, qf, failAt, 0)
    IN IF IsNone(position)
       THEN [ex |-> ex, orders |-> << >>, queries |-> 1, failed |-> qfail,
             result |-> [status |-> "none"], history |-> hist]
       ELSE [ex |-> inner.ex, orders |-> inner.orders,
             queries |-> 1 + inner.queries, failed |-> qfail \cup inner.failed,
             result |-> inner.result, history |-> inner.history]

----------------------------------------------------------------------------
(* BinanceExecutor.setup_exchange *)

\* The exchange calls of setup_exchange, in the order they are made
SetupCalls == {"hedge_mode", "leverage", "balance"}

SetupExchangeNoInnerTry(F) == [SetupIdle EXCEPT !.called = TRUE, !.failed = IF "hedge_mode" \in F THEN {"hedge_mode"} ELSE IF "leverage" \in F THEN {"leverage"} ELSE F, !.hedge_mode = "hedge_mode" \notin F, !.leverage_set = F \cap {"hedge_mode", "leverage"} = {}, !.balance_read = F = {}, !.returned = IF F = {} THEN "True" ELSE "False"]

\* F: the calls that raise when they are made.  The hedge-mode toggle has a
\* try of its own; set_leverage and fetch_balance share the outer one, whose
\* except returns False.
SetupExchangeOp(F) ==
    [SetupIdle EXCEPT
        !.called = TRUE,
        !.failed = IF "leverage" \in F THEN F \ {"balance"} ELSE F,
        !.hedge_mode = "hedge_mode" \notin F,
        !.leverage_set = "leverage" \notin F,
        !.balance_read = F \cap {"leverage", "balance"} = {},
        !.returned = IF F \cap {"leverage", "balance"} = {} THEN "True"
                     ELSE "False"]

----------------------------------------------------------------------------------------------------------------------------------------
(* State machine *)

NoCall ==
    [op |-> "none", action |-> "none", amount |-> 0,
     stop_loss |-> FALSE, take_profit |-> FALSE,
     pre |-> [long |-> 0, short |-> 0],
     orders |-> << >>, queries |-> 0, failed |-> {}, result |-> [status |-> "none"]]

InBounds(ex) == ex.long <= MaxPos /\ ex.short <= MaxPos

\* The exchange calls of one operation that may raise
ExchangeCalls == {"initial_query", "order_1", "order_2", "stops_query",
                  "stop_order_1", "stop_order_2", "final_query", "outer_query"}

FailureSets == {F \in SUBSET ExchangeCalls : Cardinality(F) <= MaxFailures}

QueryFailures(F) == F \cap {"initial_query", "stops_query", "final_query"}

OrderFailAt(F) == IF "order_1" \in F THEN 1 ELSE IF "order_2" \in F THEN 2 ELSE 0

StopFailAt(F) ==
    IF "stop_order_1" \in F THEN 1 ELSE IF "stop_order_2" \in F THEN 2 ELSE 0

AccountStates == [long : 0..MaxPos, short : 0..MaxPos]

\* The process starts: nothing read, the account in any state
InitConfig ==
    /\ pc = "start"
    /\ env = "unread"
    /\ config = "absent"
    /\ ctor_arg = "None"
    /\ test_mode = "None"
    /\ exchange \in AccountStates
    /\ listedFirst \in Sides
    /\ trade_history = << >>
    /\ call = NoCall
    /\ retry = RetryIdle
    /\ simple = SimpleIdle
    /\ graph = GraphIdle
    /\ handoff = HandoffIdle
    /\ run = RunIdle
    /\ setup = SetupIdle
    /\ callers = CallersIdle

\* A caller holding a configuration dictionary without the test-mode key
Init ==
    /\ pc = "configured"
    /\ env = "unread"
    /\ config = "absent"
    /\ ctor_arg = "None"
    /\ test_mode = "None"
    /\ exchange \in AccountStates
    /\ listedFirst \in Sides
    /\ trade_history = << >>
    /\ call = NoCall
    /\ retry = RetryIdle
    /\ simple = SimpleIdle
    /\ graph = GraphIdle
    /\ handoff = HandoffIdle
    /\ run = RunIdle
    /\ setup = SetupIdle
    /\ callers = CallersIdle

\* config = get_crypto_config()
GetCryptoConfig ==
    /\ pc = "start"
    /\ \E e \in EnvValues :
        /\ env' = e
        /\ config' = GetCryptoConfigTestMode(e)
    /\ pc' = "configured"
    /\ UNCHANGED <<ctor_arg, test_mode, exchange, listedFirst, trade_history, call>>
    /\ UNCHANGED pipelineVars

\* A configuration dictionary supplied by the caller
UseConfigDict ==
    /\ pc = "start"
    /\ \E c \in ConfigValues : config' = c
    /\ pc' = "configured"
    /\ UNCHANGED <<env, ctor_arg, test_mode, exchange, listedFirst, trade_history, call>>
    /\ UNCHANGED pipelineVars

\* BinanceExecutor(config) or BinanceExecutor(config, test_mode=arg)
Construct ==
    /\ pc = "configured"
    /\ \E arg \in ArgValues :
        /\ ctor_arg' = arg
        /\ test_mode' = InitTestMode(config, arg)
    /\ pc' = "ready"
    /\ UNCHANGED <<env, config, exchange, listedFirst, trade_history, call>>
    /\ UNCHANGED pipelineVars

\* CryptoTradingAgentsGraph.__init__:
\* BinanceExecutor(self.config, test_mode=self.config['binance_test_mode'])
GraphConstruct ==
    /\ pc = "configured"
    /\ IF config = "absent"
       THEN /\ pc' = "key_error"
            /\ UNCHANGED <<ctor_arg, test_mode, setup>>
       ELSE /\ pc' = "ready"
            /\ ctor_arg' = config
            /\ test_mode' = InitTestMode(config, config)
            /\ \E F \in SUBSET SetupCalls :
                \* `if not self.config['binance_test_mode']:` and the rest
                \* of the constructor, which does not read the return value
                setup' = [(IF ~Truthy(config) THEN SetupExchangeOp(F)
                           ELSE SetupIdle) EXCEPT !.graph_built = TRUE]
    /\ UNCHANGED <<env, config, exchange, listedFirst, trade_history, call>>
    /\ UNCHANGED <<retry, simple, graph, handoff, run, callers>>

ExecuteTrade ==
    /\ pc = "ready"
    /\ Len(trade_history) < MaxHistory
    /\ \E action \in ActionValues, amount \in 1..MaxAmount,
          stop_loss \in BOOLEAN, take_profit \in BOOLEAN,
          F \in FailureSets :
        LET r == ExecuteTradeOp(test_mode, exchange, listedFirst, trade_history,
                                action, amount, stop_loss, take_profit,
                                QueryFailures(F), OrderFailAt(F), StopFailAt(F))
        IN /\ InBounds(r.ex)
           /\ exchange' = r.ex
           /\ trade_history' = r.history
           /\ call' = [op |-> "execute_trade", action |-> action,
                       amount |-> amount, stop_loss |-> stop_loss,
                       take_profit |-> take_profit, pre |-> exchange,
                       orders |-> r.orders, queries |-> r.queries,
                       failed |-> r.failed, result |-> r.result]
    /\ pc' = "returned"
    /\ UNCHANGED <<env, config, ctor_arg, test_mode, listedFirst>>
    /\ UNCHANGED pipelineVars

ClosePosition ==
    /\ pc = "ready"
    /\ Len(trade_history) < MaxHistory
    /\ \E F \in FailureSets :
        LET r == ClosePositionOp(test_mode, exchange, listedFirst, trade_history,
                                 "initial_query" \in F, "order_1" \in F)
        IN /\ exchange' = r.ex
           /\ trade_history' = r.history
           /\ call' = [NoCall EXCEPT !.op = "close_position", !.pre = exchange,
                       !.orders = r.orders, !.queries = r.queries,
                       !.failed = r.failed, !.result = r.result]
    /\ pc' = "returned"
    /\ UNCHANGED <<env, config, ctor_arg, test_mode, listedFirst>>
    /\ UNCHANGED pipelineVars

CloseAllPositions ==
    /\ pc = "ready"
    /\ Len(trade_history) < MaxHistory
    /\ \E F \in FailureSets :
        LET r == CloseAllPositionsOp(test_mode, exchange, listedFirst,
                                     trade_history, "outer_query" \in F,
                                     QueryFailures(F), OrderFailAt(F))
        IN /\ exchange' = r.ex
           /\ trade_history' = r.history
           /\ call' = [NoCall EXCEPT !.op = "close_all_positions", !.pre = exchange,
                       !.orders = r.orders, !.queries = r.queries,
                       !.failed = r.failed, !.result = r.result]
    /\ pc' = "returned"
    /\ UNCHANGED <<env, config, ctor_arg, test_mode, listedFirst>>
    /\ UNCHANGED pipelineVars

\* The caller has taken the result; the executor is ready for the next call
Return ==
    /\ pc = "returned"
    /\ pc' = "ready"
    /\ call' = NoCall
    /\ UNCHANGED <<env, config, ctor_arg, test_mode, exchange, listedFirst,
                   trade_history>>
    /\ UNCHANGED pipelineVars

Next ==
    \/ Construct
    \/ ExecuteTrade
    \/ ClosePosition
    \/ CloseAllPositions
    \/ Return

Spec == Init /\ [][Next]_vars

NextConfig ==
    \/ GetCryptoConfig
    \/ UseConfigDict
    \/ Construct
    \/ GraphConstruct

SpecConfig == InitConfig /\ [][NextConfig]_vars

----------------------------------------------------------------------------
(* llm_retry (tradingagents/utils/llm_utils.py).  An error message is the  *)
(* sequence of its characters.                                             *)

\* str.lower() on the letters the messages use
LowerChar(c) ==
    CASE c = "A" -> "a" [] c = "E" -> "e" [] c = "I" -> "i" [] c = "L" -> "l"
      [] c = "M" -> "m" [] c = "O" -> "o" [] c = "R" -> "r" [] c = "T" -> "t"
      [] c = "U" -> "u" [] OTHER -> c

StrLower(str) == [i \in 1..Len(str) |-> LowerChar(str[i])]

\* sub in str
Contains(sub, str) ==
    \E i \in 0..(Len(str) - Len(sub)) : SubSeq(str, i + 1, i + Len(sub)) = sub

RetryableVocabulary ==
    { <<"4", "0", "4">>,
      <<"n", "o", "t", " ", "f", "o", "u", "n", "d">>,
      <<"5", "0", "0">>, <<"5", "0", "2">>,
      <<"5", "0", "3">>, <<"5", "0", "4">>,
      <<"t", "i", "m", "e", "o", "u", "t">>,
      <<"c", "o", "n", "n", "e", "c", "t", "i", "o", "n">>,
      <<"r", "a", "t", "e", " ", "l", "i", "m", "i", "t">>,
      <<"t", "o", "o", " ", "m", "a", "n", "y", " ", "r", "e", "q", "u", "e", "s", "t", "s">> }

IsRetryableAlways(error_str) == TRUE      \* every error is retried

IsRetryable(error_str) == \E entry \in RetryableVocabulary : Contains(entry, error_str)

ErrorStr(e) == StrLower(e)

RetriesLeftOffByOne(attempt, max_retries) == attempt + 1 < max_retries

RetriesLeft(attempt, max_retries) == attempt < max_retries

RECURSIVE Pow(_, _)
Pow(b, n) == IF n = 0 THEN 1 ELSE b * Pow(b, n - 1)

DelayLinear(base_delay, backoff_factor, attempt) == base_delay * backoff_factor * attempt

Delay(base_delay, backoff_factor, attempt) == base_delay * Pow(backoff_factor, attempt)

\* range(n)
Range(n) == 0..(n - 1)

\* The messages the wrapped function raises: "Error 503", "Rate Limit",
\* "TIMEOUT", "invalid api key", "50 3"
ErrorMessages ==
    { <<"E", "r", "r", "o", "r", " ", "5", "0", "3">>,
      <<"R", "a", "t", "e", " ", "L", "i", "m", "i", "t">>,
      <<"T", "I", "M", "E", "O", "U", "T">>,
      <<"i", "n", "v", "a", "l", "i", "d", " ", "a", "p", "i", " ", "k", "e", "y">>,
      <<"5", "0", " ", "3">> }

\* What one invocation of the wrapped function does
Outcomes ==
    {[raises |-> FALSE, message |-> << >>]}
        \cup {[raises |-> TRUE, message |-> e] : e \in ErrorMessages}

BaseDelays == {0, 5, 10}

BackoffFactors == {1, 2}

\* `raise last_exception` while last_exception is None
TypeError == <<"T", "y", "p", "e", "E", "r", "r", "o", "r">>

\* wrapper(): the locals before the first iteration; the loop body does not
\* run when range(max_retries + 1) is empty and line 64 raises None
WrapperEntry(max_retries, base_delay, backoff_factor) ==
    LET r == [RetryIdle EXCEPT !.max_retries = max_retries,
                               !.base_delay = base_delay,
                               !.backoff_factor = backoff_factor]
    IN IF 0 \in Range(max_retries + 1)
       THEN [r EXCEPT !.pc = "running"]
       ELSE [r EXCEPT !.pc = "raised", !.error = TypeError]

\* One iteration of `for attempt in range(max_retries + 1)`
LoopBody(r, outcome) ==
    LET called == [r EXCEPT !.invocations = @ + 1]
    IN IF ~outcome.raises
       THEN [called EXCEPT !.pc = "returned"]
       ELSE LET e == outcome.message
                caught == [called EXCEPT !.last_exception = e,
                                         !.raised = Append(@, e)]
                error_str == ErrorStr(e)
            IN IF ~IsRetryable(error_str)
               THEN [caught EXCEPT !.pc = "raised", !.error = e]
               ELSE IF RetriesLeft(r.attempt, r.max_retries)
                    THEN LET slept == [caught EXCEPT !.delays =
                                 Append(@, Delay(r.base_delay, r.backoff_factor,
                                                 r.attempt))]
                         IN IF r.attempt + 1 \in Range(r.max_retries + 1)
                            THEN [slept EXCEPT !.attempt = @ + 1]
                            ELSE [slept EXCEPT !.pc = "raised",
                                               !.error = slept.last_exception]
                    ELSE [caught EXCEPT !.pc = "raised",
                                        !.error = caught.last_exception]

\* A caller with an executor at hand and no wrapped call in progress
InitRetry ==
    /\ pc = "ready"
    /\ env = "unread"
    /\ config = "absent"
    /\ ctor_arg = "None"
    /\ test_mode = "True"
    /\ exchange = [long |-> 0, short |-> 0]
    /\ listedFirst = "long"
    /\ trade_history = << >>
    /\ call = NoCall
    /\ retry = RetryIdle
    /\ simple = SimpleIdle
    /\ graph = GraphIdle
    /\ handoff = HandoffIdle
    /\ run = RunIdle
    /\ setup = SetupIdle
    /\ callers = CallersIdle

\* The decorated function is called
WrapperCall ==
    /\ retry.pc = "idle"
    /\ \E max_retries \in -1..MaxRetries, base_delay \in BaseDelays,
          backoff_factor \in BackoffFactors :
        retry' = WrapperEntry(max_retries, base_delay, backoff_factor)
    /\ UNCHANGED <<executorVars, simple, graph, handoff, run, setup, callers>>

\* The wrapped function is invoked once and its outcome handled
Attempt ==
    /\ retry.pc = "running"
    /\ \E outcome \in Outcomes : retry' = LoopBody(retry, outcome)
    /\ UNCHANGED <<executorVars, simple, graph, handoff, run, setup, callers>>

NextRetry ==
    \/ WrapperCall
    \/ Attempt

SpecRetry == InitRetry /\ [][NextRetry]_vars

----------------------------------------------------------------------------
(* Decision texts.  A text is the sequence of its tokens: a word is one    *)
(* token, a final-decision marker is three (the opening with the label,    *)
(* the action word, the closing asterisks), so that the action word of a   *)
(* marker is found by a search for the bare word, as `in` finds it.        *)
(* "go_long" and "go_short" stand for the two Chinese keywords of the      *)
(* keyword scan.                                                           *)

Word(w) == << w >>

Marker(a) == << "**decision: ", a, "**" >>

MarkerActions == {"BUY", "SELL", "HOLD", "CLOSE", "LONG"}

Segments ==
    {Word(w) : w \in {"BUY", "SELL", "go_long", "go_short", "text"}}
        \cup {Marker(a) : a \in MarkerActions}

RECURSIVE Flatten(_)
Flatten(segments) ==
    IF segments = << >> THEN << >>
    ELSE Head(segments) \o Flatten(Tail(segments))

\* The texts of at most MaxText segments
DecisionTexts ==
    UNION {{Flatten(segments) : segments \in [1..n -> Segments]} : n \in 0..MaxText}

\* The positions of the marker openings in a text
MarkerPositions(decision) ==
    {i \in 1..Len(decision) : decision[i] = "**decision: "}

\* The texts the Risk Judge's response is drawn from
FinalDecisions == {<< >>, Marker("BUY"), Marker("HOLD")}

----------------------------------------------------------------------------
(* SimpleCryptoTradingGraph (tradingagents/graph/simple_crypto_graph.py):  *)
(* Market Analyst, Crypto Analyst, Trader.  Only the last MaxMessages      *)
(* messages of the history are kept: the routing reads the last one.       *)

Contents == {"", "report", "other report"}

\* What the LLM answers to one invocation
LLMResponses ==
    [role : {"ai"}, tool_calls : 0..MaxToolCalls, content : Contents]

ToolMessage == [role |-> "tool", tool_calls |-> 0, content |-> "result"]

Last(seq) == seq[Len(seq)]

\* The messages channel of the graph state: an update is appended
MergeMessages(messages, update) ==
    LET all == messages \o update
    IN IF Len(all) <= MaxMessages THEN all
       ELSE SubSeq(all, Len(all) - MaxMessages + 1, Len(all))

ShouldUseToolsHasAttr(messages) == IF messages = << >> THEN "continue" ELSE IF Last(messages).role = "ai" THEN "tools" ELSE "continue"

\* _should_use_tools
ShouldUseTools(messages) ==
    IF messages = << >> THEN "continue"
    ELSE IF Last(messages).role = "ai" /\ Last(messages).tool_calls > 0
         THEN "tools"
         ELSE "continue"

CryptoAnalystNodeAlwaysReports(result) == [messages |-> << result >>, crypto_analysis_report |-> result.content]

\* crypto_analyst_node: the update it returns for the LLM's result
CryptoAnalystNode(result) ==
    [messages |-> << result >>,
     crypto_analysis_report |->
         IF result.tool_calls = 0 THEN result.content ELSE ""]

\* The market analyst's node
MarketAnalystNode(result) ==
    [messages |-> << result >>,
     market_report |-> IF result.tool_calls = 0 THEN result.content ELSE ""]

\* ToolNode: one tool message for each tool call of the last message
ToolNode(messages) ==
    [messages |-> [i \in 1..Last(messages).tool_calls |-> ToolMessage]]

\* delete_messages
DeleteMessages == [messages |-> << >>]

\* crypto_trader_node of the full pipeline: the update it returns
CryptoTraderNode(result) ==
    [messages |-> << result >>, trader_investment_plan |-> result.content]

\* trader_node
TraderNode(response) ==
    [final_trade_decision |-> response.content, messages |-> << response >>]

InitSimple ==
    /\ pc = "ready"
    /\ env = "unread"
    /\ config = "absent"
    /\ ctor_arg = "None"
    /\ test_mode = "True"
    /\ exchange = [long |-> 0, short |-> 0]
    /\ listedFirst = "long"
    /\ trade_history = << >>
    /\ call = NoCall
    /\ retry = RetryIdle
    /\ simple = SimpleIdle
    /\ graph = GraphIdle
    /\ handoff = HandoffIdle
    /\ run = RunIdle
    /\ setup = SetupIdle
    /\ callers = CallersIdle

\* propagate: the initial state is streamed through the graph from START
SimplePropagate ==
    /\ simple.node = "idle"
    /\ simple' = [SimpleIdle EXCEPT !.node = "Market Analyst"]
    /\ UNCHANGED <<executorVars, retry, graph, handoff, run, setup, callers>>

MarketAnalyst ==
    /\ simple.node = "Market Analyst"
    /\ \E result \in LLMResponses :
        LET update == MarketAnalystNode(result)
            messages == MergeMessages(simple.messages, update.messages)
        IN simple' = [simple EXCEPT
                !.messages = messages,
                !.market_report = update.market_report,
                !.node = IF ShouldUseTools(messages) = "tools"
                         THEN "tools_market" ELSE "delete_market"]
    /\ UNCHANGED <<executorVars, retry, graph, handoff, run, setup, callers>>

ToolsMarket ==
    /\ simple.node = "tools_market"
    /\ simple' = [simple EXCEPT
            !.messages = MergeMessages(@, ToolNode(simple.messages).messages),
            !.node = "Market Analyst"]
    /\ UNCHANGED <<executorVars, retry, graph, handoff, run, setup, callers>>

DeleteMarket ==
    /\ simple.node = "delete_market"
    /\ simple' = [simple EXCEPT
            !.messages = MergeMessages(@, DeleteMessages.messages),
            !.node = "Crypto Analyst"]
    /\ UNCHANGED <<executorVars, retry, graph, handoff, run, setup, callers>>

CryptoAnalyst ==
    /\ simple.node = "Crypto Analyst"
    /\ \E result \in LLMResponses :
        LET update == CryptoAnalystNode(result)
            messages == MergeMessages(simple.messages, update.messages)
        IN simple' = [simple EXCEPT
                !.messages = messages,
                !.crypto_analysis_report = update.crypto_analysis_report,
                !.node = IF ShouldUseTools(messages) = "tools"
                         THEN "tools_crypto" ELSE "delete_crypto"]
    /\ UNCHANGED <<executorVars, retry, graph, handoff, run, setup, callers>>

ToolsCrypto ==
    /\ simple.node = "tools_crypto"
    /\ simple' = [simple EXCEPT
            !.messages = MergeMessages(@, ToolNode(simple.messages).messages),
            !.node = "Crypto Analyst"]
    /\ UNCHANGED <<executorVars, retry, graph, handoff, run, setup, callers>>

DeleteCrypto ==
    /\ simple.node = "delete_crypto"
    /\ simple' = [simple EXCEPT
            !.messages = MergeMessages(@, DeleteMessages.messages),
            !.node = "Trader"]
    /\ UNCHANGED <<executorVars, retry, graph, handoff, run, setup, callers>>

SimpleTrader ==
    /\ simple.node = "Trader"
    /\ \E response \in LLMResponses :
        LET update == TraderNode(response)
        IN simple' = [simple EXCEPT
                !.messages = MergeMessages(@, update.messages),
                !.final_trade_decision = update.final_trade_decision,
                !.node = "END"]
    /\ UNCHANGED <<executorVars, retry, graph, handoff, run, setup, callers>>

NextSimple ==
    \/ SimplePropagate
    \/ MarketAnalyst
    \/ ToolsMarket
    \/ DeleteMarket
    \/ CryptoAnalyst
    \/ ToolsCrypto
    \/ DeleteCrypto
    \/ SimpleTrader

SpecSimple == InitSimple /\ [][NextSimple]_vars

\* The graph runtime runs the scheduled node
FairSpecSimple == SpecSimple /\ WF_vars(NextSimple)

----------------------------------------------------------------------------
(* CryptoTradingAgentsGraph (tradingagents/graph/crypto_trading_graph.py): *)
(* the selected analysts in order, the Bull/Bear debate, the Research      *)
(* Manager, the Trader, the Risky/Safe/Neutral review and the Risk Judge.  *)
(* graph.speakers is the history of the debate and review turns taken.     *)

\* The default selection, a single analyst, and a reordered pair
SelectedAnalysts ==
    { <<"market", "crypto", "social", "news">>, <<"crypto">>,
      <<"news", "market">> }

\* f"{analyst_type.capitalize()} Analyst"
AnalystName(analyst_type) ==
    CASE analyst_type = "market" -> "Market Analyst"
      [] analyst_type = "crypto" -> "Crypto Analyst"
      [] analyst_type = "social" -> "Social Analyst"
      [] analyst_type = "news" -> "News Analyst"

\* f"tools_{analyst_type}"
ToolsName(analyst_type) ==
    CASE analyst_type = "market" -> "tools_market"
      [] analyst_type = "crypto" -> "tools_crypto"
      [] analyst_type = "social" -> "tools_social"
      [] analyst_type = "news" -> "tools_news"

\* f"Msg Clear {analyst_type.capitalize()}"
ClearName(analyst_type) ==
    CASE analyst_type = "market" -> "Msg Clear Market"
      [] analyst_type = "crypto" -> "Msg Clear Crypto"
      [] analyst_type = "social" -> "Msg Clear Social"
      [] analyst_type = "news" -> "Msg Clear News"

\* The rounds ConditionalLogic() holds when constructed without arguments:
\* a default of its own, or the configured value read from the shared
\* configuration
ConditionalLogicRounds(configured) == (1..MaxRounds) \cup {configured}

\* conditional_logic.should_continue_<analyst_type>
ShouldContinueAnalyst(analyst_type, tool_calls) ==
    IF tool_calls > 0 THEN ToolsName(analyst_type) ELSE ClearName(analyst_type)

\* conditional_logic.should_continue_debate
ShouldContinueDebate(logic, debate) ==
    IF debate.count >= 2 * logic.max_debate_rounds THEN "Research Manager"
    ELSE IF debate.current_response = "Bull" THEN "Bear Researcher"
         ELSE "Bull Researcher"

\* conditional_logic.should_continue_risk_analysis
ShouldContinueRiskAnalysis(logic, risk) ==
    IF risk.count >= 3 * logic.max_risk_discuss_rounds THEN "Risk Judge"
    ELSE IF risk.latest_speaker = "Risky" THEN "Safe Analyst"
         ELSE IF risk.latest_speaker = "Safe" THEN "Neutral Analyst"
              ELSE "Risky Analyst"

\* The path maps of the conditional edges
BullEdges ==
    [key \in {"Bear Researcher", "Research Manager"} |-> key]

BearEdges ==
    [key \in {"Bull Researcher", "Research Manager"} |-> key]

RiskyEdges ==
    [key \in {"Safe Analyst", "Risk Judge"} |-> key]

SafeEdgesBackToRisky == [key \in {"Neutral Analyst", "Risk Judge"} |-> IF key = "Neutral Analyst" THEN "Risky Analyst" ELSE key]

SafeEdges ==
    [key \in {"Neutral Analyst", "Risk Judge"} |-> key]

NeutralEdges ==
    [key \in {"Risky Analyst", "Risk Judge"} |-> key]

\* The node a conditional edge leads to for the key its router returned
Route(edges, key) == IF key \in DOMAIN edges THEN edges[key] ELSE "KeyError"

AfterClearDropsLast(selected, i) == IF i < Len(selected) - 1 THEN [stage |-> i + 1, node |-> AnalystName(selected[i + 1])] ELSE [stage |-> 0, node |-> "Bull Researcher"]

\* The edge out of the i-th selected analyst's Msg Clear node (i from 1)
AfterClear(selected, i) ==
    IF i < Len(selected)
    THEN [stage |-> i + 1, node |-> AnalystName(selected[i + 1])]
    ELSE [stage |-> 0, node |-> "Bull Researcher"]

\* The Risk Judge's node: its response is the final decision
RiskJudgeNode(text) == [final_trade_decision |-> [written |-> TRUE, text |-> text]]

\* A Bull or Bear turn: the debate state the researcher's node returns
DebateTurn(debate, speaker) ==
    [count |-> debate.count + 1, current_response |-> speaker]

\* A Risky, Safe or Neutral turn: the risk state the debator's node returns
RiskTurn(risk, speaker) ==
    [count |-> risk.count + 1, latest_speaker |-> speaker]

InitGraph ==
    /\ pc = "ready"
    /\ env = "unread"
    /\ config = "absent"
    /\ ctor_arg = "None"
    /\ test_mode = "True"
    /\ exchange = [long |-> 0, short |-> 0]
    /\ listedFirst = "long"
    /\ trade_history = << >>
    /\ call = NoCall
    /\ retry = RetryIdle
    /\ simple = SimpleIdle
    /\ graph = GraphIdle
    /\ handoff = HandoffIdle
    /\ run = RunIdle
    /\ setup = SetupIdle
    /\ callers = CallersIdle

\* CryptoTradingAgentsGraph.__init__: the configuration holds the rounds,
\* ConditionalLogic() is constructed without them
GraphInit ==
    /\ graph.node = "idle"
    /\ \E selected \in SelectedAnalysts,
          debate_rounds \in 0..MaxRounds, risk_rounds \in 0..MaxRounds :
        \E logic_debate \in ConditionalLogicRounds(debate_rounds),
           logic_risk \in ConditionalLogicRounds(risk_rounds) :
            graph' = [GraphIdle EXCEPT
                !.node = "constructed",
                !.selected = selected,
                !.max_debate_rounds = debate_rounds,
                !.max_risk_discuss_rounds = risk_rounds,
                !.conditional_logic =
                    [max_debate_rounds |-> logic_debate,
                     max_risk_discuss_rounds |-> logic_risk]]
    /\ UNCHANGED <<executorVars, retry, simple, handoff, run, setup, callers>>

\* propagate: the graph starts at the first selected analyst
GraphPropagate ==
    /\ graph.node = "constructed"
    /\ graph' = [graph EXCEPT !.stage = 1,
                              !.node = AnalystName(graph.selected[1])]
    /\ UNCHANGED <<executorVars, retry, simple, handoff, run, setup, callers>>

\* An analyst's node and its conditional edge
GraphAnalyst ==
    /\ graph.stage \in 1..Len(graph.selected)
    /\ graph.node = AnalystName(graph.selected[graph.stage])
    /\ \E result \in LLMResponses :
        LET analyst_type == graph.selected[graph.stage]
        IN graph' = [graph EXCEPT
            !.tool_calls = result.tool_calls,
            !.market_report =
                IF analyst_type = "market"
                THEN MarketAnalystNode(result).market_report ELSE @,
            !.crypto_analysis_report =
                IF analyst_type = "crypto"
                THEN CryptoAnalystNode(result).crypto_analysis_report ELSE @,
            !.node = ShouldContinueAnalyst(analyst_type, result.tool_calls)]
    /\ UNCHANGED <<executorVars, retry, simple, handoff, run, setup, callers>>

GraphTools ==
    /\ graph.stage \in 1..Len(graph.selected)
    /\ graph.node = ToolsName(graph.selected[graph.stage])
    /\ graph' = [graph EXCEPT
            !.tool_calls = 0,
            !.node = AnalystName(graph.selected[graph.stage])]
    /\ UNCHANGED <<executorVars, retry, simple, handoff, run, setup, callers>>

GraphMsgClear ==
    /\ graph.stage \in 1..Len(graph.selected)
    /\ graph.node = ClearName(graph.selected[graph.stage])
    /\ LET next == AfterClear(graph.selected, graph.stage)
       IN graph' = [graph EXCEPT !.stage = next.stage, !.node = next.node]
    /\ UNCHANGED <<executorVars, retry, simple, handoff, run, setup, callers>>

BullResearcher ==
    /\ graph.node = "Bull Researcher"
    /\ LET debate == DebateTurn(graph.investment_debate_state, "Bull")
       IN graph' = [graph EXCEPT
            !.investment_debate_state = debate,
            !.speakers = Append(@, "Bull"),
            !.node = Route(BullEdges,
                           ShouldContinueDebate(graph.conditional_logic, debate))]
    /\ UNCHANGED <<executorVars, retry, simple, handoff, run, setup, callers>>

BearResearcher ==
    /\ graph.node = "Bear Researcher"
    /\ LET debate == DebateTurn(graph.investment_debate_state, "Bear")
       IN graph' = [graph EXCEPT
            !.investment_debate_state = debate,
            !.speakers = Append(@, "Bear"),
            !.node = Route(BearEdges,
                           ShouldContinueDebate(graph.conditional_logic, debate))]
    /\ UNCHANGED <<executorVars, retry, simple, handoff, run, setup, callers>>

ResearchManager ==
    /\ graph.node = "Research Manager"
    /\ graph' = [graph EXCEPT !.node = "Trader"]
    /\ UNCHANGED <<executorVars, retry, simple, handoff, run, setup, callers>>

GraphTrader ==
    /\ graph.node = "Trader"
    /\ \E content \in Contents :
        LET result == [role |-> "ai", tool_calls |-> 0, content |-> content]
        IN graph' = [graph EXCEPT
            !.trader_investment_plan =
                CryptoTraderNode(result).trader_investment_plan,
            !.node = "Risky Analyst"]
    /\ UNCHANGED <<executorVars, retry, simple, handoff, run, setup, callers>>

RiskyAnalyst ==
    /\ graph.node = "Risky Analyst"
    /\ LET risk == RiskTurn(graph.risk_debate_state, "Risky")
       IN graph' = [graph EXCEPT
            !.risk_debate_state = risk,
            !.speakers = Append(@, "Risky"),
            !.node = Route(RiskyEdges,
                           ShouldContinueRiskAnalysis(graph.conditional_logic, risk))]
    /\ UNCHANGED <<executorVars, retry, simple, handoff, run, setup, callers>>

SafeAnalyst ==
    /\ graph.node = "Safe Analyst"
    /\ LET risk == RiskTurn(graph.risk_debate_state, "Safe")
       IN graph' = [graph EXCEPT
            !.risk_debate_state = risk,
            !.speakers = Append(@, "Safe"),
            !.node = Route(SafeEdges,
                           ShouldContinueRiskAnalysis(graph.conditional_logic, risk))]
    /\ UNCHANGED <<executorVars, retry, simple, handoff, run, setup, callers>>

NeutralAnalyst ==
    /\ graph.node = "Neutral Analyst"
    /\ LET risk == RiskTurn(graph.risk_debate_state, "Neutral")
       IN graph' = [graph EXCEPT
            !.risk_debate_state = risk,
            !.speakers = Append(@, "Neutral"),
            !.node = Route(NeutralEdges,
                           ShouldContinueRiskAnalysis(graph.conditional_logic, risk))]
    /\ UNCHANGED <<executorVars, retry, simple, handoff, run, setup, callers>>

RiskJudge ==
    /\ graph.node = "Risk Judge"
    /\ \E text \in FinalDecisions :
        graph' = [graph EXCEPT
            !.final_trade_decision = RiskJudgeNode(text).final_trade_decision,
            !.node = "END"]
    /\ UNCHANGED <<executorVars, retry, simple, handoff, run, setup, callers>>

NextGraph ==
    \/ GraphInit
    \/ GraphPropagate
    \/ GraphAnalyst
    \/ GraphTools
    \/ GraphMsgClear
    \/ BullResearcher
    \/ BearResearcher
    \/ ResearchManager
    \/ GraphTrader
    \/ RiskyAnalyst
    \/ SafeAnalyst
    \/ NeutralAnalyst
    \/ RiskJudge

SpecGraph == InitGraph /\ [][NextGraph]_vars

\* The graph runtime runs the scheduled node
FairSpecGraph == SpecGraph /\ WF_vars(NextGraph)

----------------------------------------------------------------------------
(* From the decision text to the executor:                                 *)
(* SimpleCryptoTradingGraph.execute_trade and                              *)
(* CryptoTradingAgentsGraph._execute_trade_decision, called by propagate   *)
(* with the text process_signal returned.                                  *)

\* The methods BinanceExecutor defines
ExecutorMethods ==
    {"setup_exchange", "get_current_position", "execute_trade",
     "_set_stop_orders", "get_account_info", "get_trade_history",
     "close_position", "close_all_positions", "get_position_summary"}

\* execute_trade of the simple graph, lines 367-376: the marker scan
SimpleExtract(decision) ==
    IF Contains(Marker("BUY"), decision) \/ Contains(Marker("LONG"), decision)
    THEN "BUY"
    ELSE IF Contains(Marker("SELL"), decision)
              \/ Contains(Marker("SHORT"), decision)
         THEN "SELL"
         ELSE IF Contains(Marker("CLOSE"), decision) THEN "CLOSE"
              ELSE "HOLD"

KeywordScanSellFirst(decision) == IF Contains(Word("SELL"), decision) \/ Contains(Word("go_short"), decision) THEN "SELL" ELSE IF Contains(Word("BUY"), decision) \/ Contains(Word("go_long"), decision) THEN "BUY" ELSE "HOLD"

KeywordScanDefaultSell(decision) == IF Contains(Word("BUY"), decision) \/ Contains(Word("go_long"), decision) THEN "BUY" ELSE "SELL"

\* _execute_trade_decision, lines 391-395: the keyword scan
KeywordScan(decision) ==
    IF Contains(Word("BUY"), decision) \/ Contains(Word("go_long"), decision)
    THEN "BUY"
    ELSE IF Contains(Word("SELL"), decision)
              \/ Contains(Word("go_short"), decision)
         THEN "SELL"
         ELSE "HOLD"

\* What the hand-off leaves when no executor method ran
NotExecuted(h, ex, hist, action, method, error) ==
    [handoff |-> [h EXCEPT !.action = action, !.method = method,
                           !.error = error],
     ex |-> ex, history |-> hist, call |-> NoCall]

\* SimpleCryptoTradingGraph.execute_trade(decision)
SimpleExecuteTradeOp(h, tm, ex, first, hist) ==
    LET action == SimpleExtract(h.decision)
        method == IF action = "BUY" THEN "open_long"
                  ELSE IF action = "SELL" THEN "open_short"
                  ELSE "close_position"
        r == ClosePositionOp(tm, ex, first, hist, FALSE, FALSE)
    IN IF ~h.auto_execute
       THEN NotExecuted(h, ex, hist, "none", "none", "none")
       ELSE IF action = "HOLD"
       THEN NotExecuted(h, ex, hist, action, "none", "none")
       ELSE IF method \notin ExecutorMethods
       THEN \* the attribute lookup raises inside the try of line 394
            NotExecuted(h, ex, hist, action, method, "AttributeError")
       ELSE [handoff |-> [h EXCEPT !.action = action, !.method = method],
             ex |-> r.ex, history |-> r.history,
             call |-> [NoCall EXCEPT !.op = "close_position", !.pre = ex,
                           !.orders = r.orders, !.queries = r.queries,
                           !.failed = r.failed, !.result = r.result]]

ExecutionEnabledWithoutFlag(auto_execute, decision) == decision # << >>

\* propagate, line 382: `if self.auto_execute and decision:`
ExecutionEnabled(auto_execute, decision) == auto_execute /\ decision # << >>

\* propagate, lines 382-383, and _execute_trade_decision(decision)
\* (failAt: the market order of execute_trade that raises, 0: none)
ExecuteTradeDecisionOp(h, tm, ex, first, hist, failAt) ==
    LET action == KeywordScan(h.decision)
        r == ExecuteTradeOp(tm, ex, first, hist, action, h.position_size,
                            FALSE, FALSE, {}, failAt, 0)
    IN IF ~ExecutionEnabled(h.auto_execute, h.decision)
       THEN NotExecuted(h, ex, hist, "none", "none", "none")
       ELSE IF action = "HOLD"
       THEN NotExecuted(h, ex, hist, action, "none", "none")
       ELSE [handoff |-> [h EXCEPT !.action = action,
                                   !.method = "execute_trade"],
             ex |-> r.ex, history |-> r.history,
             call |-> [op |-> "execute_trade", action |-> action,
                       amount |-> h.position_size, stop_loss |-> FALSE,
                       take_profit |-> FALSE, pre |-> ex,
                       orders |-> r.orders, queries |-> r.queries,
                       failed |-> r.failed, result |-> r.result]]

\* A graph with its executor constructed, the account in any state, a run
\* finished and its decision text not yet handed over
InitDecision ==
    /\ pc = "ready"
    /\ env = "unread"
    /\ config = "absent"
    /\ ctor_arg = "None"
    /\ test_mode \in {"True", "False"}
    /\ exchange \in AccountStates
    /\ listedFirst \in Sides
    /\ trade_history = << >>
    /\ call = NoCall
    /\ retry = RetryIdle
    /\ simple = SimpleIdle
    /\ graph = GraphIdle
    /\ \E auto_execute \in BOOLEAN, position_size \in 1..MaxAmount :
        handoff = [HandoffIdle EXCEPT !.auto_execute = auto_execute,
                                      !.position_size = position_size]
    /\ run = RunIdle
    /\ setup = SetupIdle
    /\ callers = CallersIdle

SimpleExecuteTrade ==
    /\ handoff.caller = "none"
    /\ \E decision \in DecisionTexts :
        LET r == SimpleExecuteTradeOp(
                    [handoff EXCEPT !.caller = "simple", !.decision = decision,
                                    !.pre = exchange],
                    test_mode, exchange, listedFirst, trade_history)
        IN /\ handoff' = r.handoff
           /\ exchange' = r.ex
           /\ trade_history' = r.history
           /\ call' = r.call
    /\ UNCHANGED <<pc, env, config, ctor_arg, test_mode, listedFirst,
                   retry, simple, graph, run, setup, callers>>

ExecuteTradeDecision ==
    /\ handoff.caller = "none"
    /\ \E decision \in DecisionTexts :
        LET r == ExecuteTradeDecisionOp(
                    [handoff EXCEPT !.caller = "graph", !.decision = decision,
                                    !.pre = exchange],
                    test_mode, exchange, listedFirst, trade_history, 0)
        IN /\ handoff' = r.handoff
           /\ exchange' = r.ex
           /\ trade_history' = r.history
           /\ call' = r.call
    /\ UNCHANGED <<pc, env, config, ctor_arg, test_mode, listedFirst,
                   retry, simple, graph, run, setup, callers>>

NextDecision ==
    \/ SimpleExecuteTrade
    \/ ExecuteTradeDecision

SpecDecision == InitDecision /\ [][NextDecision]_vars

----------------------------------------------------------------------------
(* CryptoTradingAgentsGraph.propagate with the LLM calls of the stages:    *)
(* graph.invoke runs the nodes one after the other, each node invokes the  *)
(* LLM, and an exception of a node leaves graph.invoke and propagate.      *)

\* The nodes of one run that invoke the LLM, in the order of the edges, with
\* the default analysts and one turn of each researcher and debator
RunStages ==
    << "Market Analyst", "Crypto Analyst", "Social Analyst", "News Analyst",
       "Bull Researcher", "Bear Researcher", "Research Manager", "Trader",
       "Risky Analyst", "Safe Analyst", "Neutral Analyst", "Risk Judge" >>

\* The decorator of the nodes that have one:
\* @llm_retry(max_retries=3, base_delay=10.0, backoff_factor=2.0)
StageMaxRetries == 3
StageBaseDelay == 10
StageBackoffFactor == 2

\* The nodes under agents/: whether the LLM call is made inside a function
\* decorated with llm_retry
NodeUsesRetry ==
    [n \in {"Crypto Analyst", "Trader"} |-> n = "Crypto Analyst"]

\* The nodes whose code is elsewhere wrap every LLM invocation
OtherNodeUsesRetry(stage) == TRUE

UsesRetry(stage) ==
    IF stage \in DOMAIN NodeUsesRetry THEN NodeUsesRetry[stage]
    ELSE OtherNodeUsesRetry(stage)

\* What the LLM does when a node invokes it: "Error 503" is transient,
\* "invalid api key" is not
StageOutcomes ==
    { [raises |-> FALSE, message |-> << >>],
      [raises |-> TRUE,
       message |-> <<"E", "r", "r", "o", "r", " ", "5", "0", "3">>],
      [raises |-> TRUE,
       message |-> <<"i", "n", "v", "a", "l", "i", "d", " ", "a", "p", "i",
                     " ", "k", "e", "y">>] }

\* process_signal: the canonical action of the final decision text
ProcessSignal(text) ==
    LET last == CHOOSE i \in MarkerPositions(text) :
                    \A j \in MarkerPositions(text) : j <= i
    IN IF MarkerPositions(text) # {} THEN Word(text[last + 1])
       ELSE Word(KeywordScan(text))

AbortedKeepsPartialState(r, invocations, error) == [r EXCEPT !.phase = "raised", !.invocations = invocations, !.error = error, !.curr_state = r.runs]

\* The exception of a node is caught nowhere in propagate: nothing after
\* graph.invoke runs
Aborted(r, invocations, error) ==
    [r EXCEPT !.phase = "raised", !.invocations = invocations,
              !.error = error]

\* The node of the current stage has returned: the next node is scheduled,
\* and after the Risk Judge graph.invoke returns the final state
StageDone(r, invocations) ==
    [r EXCEPT !.invocations = invocations,
              !.ran = Append(@, RunStages[r.stage]),
              !.stage = IF r.stage < Len(RunStages) THEN r.stage + 1 ELSE @,
              !.phase = IF r.stage < Len(RunStages) THEN "graph"
                        ELSE "invoked"]

\* A graph with its executor constructed on a flat account
InitRun ==
    /\ pc = "ready"
    /\ env = "unread"
    /\ config = "absent"
    /\ ctor_arg = "None"
    /\ test_mode \in {"True", "False"}
    /\ exchange = [long |-> 0, short |-> 0]
    /\ listedFirst = "long"
    /\ trade_history = << >>
    /\ call = NoCall
    /\ retry = RetryIdle
    /\ simple = SimpleIdle
    /\ graph = GraphIdle
    /\ \E auto_execute \in BOOLEAN :
        handoff = [HandoffIdle EXCEPT !.auto_execute = auto_execute]
    /\ run = RunIdle
    /\ setup = SetupIdle
    /\ callers = CallersIdle

\* propagate(crypto_symbol, trade_date) is called, each call with its own
\* trade_date: graph.invoke starts at the first node
RunPropagate ==
    /\ run.phase \in {"constructed", "returned", "raised", "log_failed"}
    /\ run.runs < MaxRuns
    /\ run' = [run EXCEPT !.phase = "graph", !.runs = @ + 1, !.stage = 1,
                          !.ran = << >>, !.invocations = 0, !.error = << >>,
                          !.final_trade_decision =
                                [written |-> FALSE, text |-> << >>],
                          !.pre = [curr_state |-> run.curr_state,
                                   exchange |-> exchange,
                                   trade_history |-> trade_history]]
    /\ retry' = RetryIdle
    /\ call' = NoCall
    /\ handoff' = [HandoffIdle EXCEPT !.auto_execute = handoff.auto_execute,
                                      !.position_size = handoff.position_size]
    /\ UNCHANGED <<pc, env, config, ctor_arg, test_mode, exchange, listedFirst,
                   trade_history, simple, graph, setup, callers>>

\* A node whose LLM call is decorated calls the decorated function
StageCallWithRetry ==
    /\ run.phase = "graph"
    /\ retry.pc = "idle"
    /\ UsesRetry(RunStages[run.stage])
    /\ retry' = WrapperEntry(StageMaxRetries, StageBaseDelay,
                             StageBackoffFactor)
    /\ UNCHANGED <<executorVars, simple, graph, handoff, run, setup, callers>>

\* One iteration of the decorator's loop: the LLM is invoked once
StageAttempt ==
    /\ run.phase = "graph"
    /\ retry.pc = "running"
    /\ \E outcome \in StageOutcomes : retry' = LoopBody(retry, outcome)
    /\ UNCHANGED <<executorVars, simple, graph, handoff, run, setup, callers>>

\* The decorated function returned the response: the node returns
StageReturn ==
    /\ run.phase = "graph"
    /\ retry.pc = "returned"
    /\ \E text \in FinalDecisions :
        run' = [StageDone(run, retry.invocations) EXCEPT
                    !.final_trade_decision =
                        IF RunStages[run.stage] = "Risk Judge"
                        THEN RiskJudgeNode(text).final_trade_decision
                        ELSE @]
    /\ retry' = RetryIdle
    /\ UNCHANGED <<executorVars, simple, graph, handoff, setup, callers>>

\* The decorated function raised: the exception leaves the node
StageRaise ==
    /\ run.phase = "graph"
    /\ retry.pc = "raised"
    /\ run' = Aborted(run, retry.invocations, retry.error)
    /\ UNCHANGED <<executorVars, retry, simple, graph, handoff, setup, callers>>

\* A node that invokes the LLM directly: chain.invoke(state["messages"])
StageCallDirect ==
    /\ run.phase = "graph"
    /\ retry.pc = "idle"
    /\ ~UsesRetry(RunStages[run.stage])
    /\ \E outcome \in StageOutcomes :
        run' = IF outcome.raises THEN Aborted(run, 1, outcome.message)
               ELSE StageDone(run, 1)
    /\ UNCHANGED <<executorVars, retry, simple, graph, handoff, setup, callers>>

PropagateSkipsLogState == run.phase = "invoked" /\ run' = [run EXCEPT !.phase = "logged", !.curr_state = run.runs] /\ UNCHANGED <<executorVars, retry, simple, graph, handoff, setup, callers>>

\* propagate after graph.invoke, lines 373-376: curr_state is set and
\* _log_state enters the run in log_states_dict, then dumps the dictionary
\* to the JSON file of the trade date; an exception of the file write leaves
\* propagate
PropagateLogState ==
    /\ run.phase = "invoked"
    /\ \E written \in BOOLEAN :
        run' = [run EXCEPT
            !.curr_state = run.runs,
            !.log_states_dict = @ \cup {run.runs},
            !.log_files = IF written THEN @ \cup {run.runs} ELSE @,
            !.phase = IF written THEN "logged" ELSE "log_failed"]
    /\ UNCHANGED <<executorVars, retry, simple, graph, handoff, setup, callers>>

\* propagate, lines 379-385: process_signal and the execution of the
\* decision; the order that execute_trade places may raise
PropagateReturn ==
    /\ run.phase = "logged"
    /\ \E failAt \in 0..1 :
        LET r == ExecuteTradeDecisionOp(
                    [handoff EXCEPT
                        !.caller = "graph",
                        !.decision = ProcessSignal(run.final_trade_decision.text),
                        !.pre = exchange],
                    test_mode, exchange, listedFirst, trade_history, failAt)
        IN /\ handoff' = r.handoff
           /\ exchange' = r.ex
           /\ trade_history' = r.history
           /\ call' = r.call
    /\ run' = [run EXCEPT !.phase = "returned"]
    /\ UNCHANGED <<pc, env, config, ctor_arg, test_mode, listedFirst,
                   retry, simple, graph, setup, callers>>

NextRun ==
    \/ RunPropagate
    \/ StageCallWithRetry
    \/ StageAttempt
    \/ StageReturn
    \/ StageRaise
    \/ StageCallDirect
    \/ PropagateLogState
    \/ PropagateReturn

SpecRun == InitRun /\ [][NextRun]_vars

----------------------------------------------------------------------------
(* BinanceExecutor.execute_trade(symbol, 'BUY', amount) entered by several  *)
(* callers: the method takes no lock, so the exchange calls of the callers  *)
(* interleave.  An order has settled when the exchange has applied it.      *)

Callers == 1..MaxCallers

\* The callers whose call has returned
ReturnedCallers == {q \in Callers : callers[q].pc = "returned"}

\* One executor in either mode on a flat symbol
InitOverlap ==
    /\ pc = "ready"
    /\ env = "unread"
    /\ config = "absent"
    /\ ctor_arg = "None"
    /\ test_mode \in {"True", "False"}
    /\ exchange = [long |-> 0, short |-> 0]
    /\ listedFirst \in Sides
    /\ trade_history = << >>
    /\ call = NoCall
    /\ retry = RetryIdle
    /\ simple = SimpleIdle
    /\ graph = GraphIdle
    /\ handoff = HandoffIdle
    /\ run = RunIdle
    /\ setup = SetupIdle
    /\ callers = CallersIdle

\* Lines 163-189: the result is initialised, the position is read, and in
\* test mode the call returns
CallerReadsPosition ==
    \E p \in Callers, amount \in 1..MaxAmount :
        /\ callers[p].pc = "idle"
        /\ LET cp == GetCurrentPosition(FetchPositions(exchange, listedFirst), FALSE)
               plan == Plan(cp, "BUY", amount)
           IN callers' = [callers EXCEPT ![p] =
                [CallerIdle EXCEPT
                    !.amount = amount,
                    !.current_position = cp,
                    !.before = ReturnedCallers,
                    !.planned = IF TestModeGate(test_mode) THEN << >>
                                ELSE plan.orders,
                    !.success = TestModeGate(test_mode),
                    !.message = IF TestModeGate(test_mode)
                                THEN "test_mode_simulated" ELSE plan.ret,
                    !.pc = IF TestModeGate(test_mode) \/ plan.ret # "none"
                           THEN "returned" ELSE "ordering"]]
        /\ UNCHANGED <<executorVars, retry, simple, graph, handoff, run, setup>>

\* Lines 193-211: the next market order of the BUY branch is sent and the
\* exchange applies it
CallerPlacesOrder ==
    \E p \in Callers :
        /\ callers[p].pc = "ordering"
        /\ callers[p].planned # << >>
        /\ LET o == Head(callers[p].planned)
           IN /\ exchange' = ApplyOrder(exchange, o)
              /\ callers' = [callers EXCEPT ![p].planned = Tail(@),
                                            ![p].orders = Append(@, o)]
        /\ UNCHANGED <<pc, env, config, ctor_arg, test_mode, listedFirst,
                       trade_history, call, retry, simple, graph, handoff,
                       run, setup>>

\* Lines 281-306: the result takes the order's id and is appended to
\* trade_history
CallerReturns ==
    \E p \in Callers :
        /\ callers[p].pc = "ordering"
        /\ callers[p].planned = << >>
        /\ LET recorded == RecordTrade([BaseResult(test_mode, "BUY", callers[p].amount) EXCEPT !.success = TRUE], trade_history, FALSE)
           IN /\ trade_history' = recorded.history
              /\ callers' = [callers EXCEPT ![p].pc = "returned",
                                            ![p].success = recorded.result.success,
                                            ![p].message = "order_executed"]
        /\ UNCHANGED <<pc, env, config, ctor_arg, test_mode, exchange,
                       listedFirst, call, retry, simple, graph, handoff,
                       run, setup>>

NextOverlap ==
    \/ CallerReadsPosition
    \/ CallerPlacesOrder
    \/ CallerReturns

SpecOverlap == InitOverlap /\ [][NextOverlap]_vars

----------------------------------------------------------------------------
(* Vocabulary of the properties *)

Returned(op) == pc = "returned" /\ call.op = op

TestMode == test_mode = "True"

LiveMode == test_mode # "True"

\* No exchange call of the operation raised
Nominal == call.failed = {}

MarketOrders(log) == SelectSeq(log, LAMBDA o : o.type = "MARKET")

OpensLong(o) == o.type = "MARKET" /\ o.side = "buy" /\ o.positionSide = "LONG"

OpensShort(o) == o.type = "MARKET" /\ o.side = "sell" /\ o.positionSide = "SHORT"

ClosesLong(o) == o.type = "MARKET" /\ o.side = "sell" /\ o.positionSide = "LONG"

ClosesShort(o) == o.type = "MARKET" /\ o.side = "buy" /\ o.positionSide = "SHORT"

BothSides(ex) == ex.long > 0 /\ ex.short > 0

Flat(ex) == ex.long = 0 /\ ex.short = 0

----------------------------------------------------------------------------
(* Properties *)

\* C1: in test mode, whatever operation was called (execute_trade with any
\* action value and any position, close_position, close_all_positions), no
\* order-placing call was sent to the exchange, the account is as it was,
\* and every execute_trade call returned success = true.
C1_TestModePlacesNoOrder ==
    (pc = "returned" /\ TestMode) =>
        /\ call.orders = << >>
        /\ exchange = call.pre
        /\ (call.op = "execute_trade" => call.result.success)

C1_Witness ==
    /\ Returned("execute_trade") /\ TestMode
    /\ call.action = "SELL" /\ BothSides(call.pre)
    /\ call.result.success /\ call.result.message = "test_mode_simulated"

\* C2: an executor constructed without an explicit test_mode argument is in
\* test mode unless the configuration carries binance_test_mode = False (a
\* missing key or a None value never yields live mode), and
\* get_crypto_config yields True when BINANCE_TEST_MODE is unset.
C2_DefaultIsTestMode ==
    /\ (pc = "ready" /\ ctor_arg = "None" /\ config # "False")
            => TestModeGate(test_mode)
    /\ (pc = "configured" /\ env = "unset") => config = "True"

\* C3: in live mode, BUY called while the symbol holds a short of size s and
\* no long, every exchange call answering, places exactly two market orders:
\* first a buy of s tagged SHORT, then a buy of `amount` tagged LONG.  When
\* the position was read, an order opening the long is never placed before
\* the order closing the short, also when an order is refused.
C3_BuyFromShortClosesThenOpens ==
    (Returned("execute_trade") /\ LiveMode /\ call.action = "BUY"
        /\ call.pre.short > 0 /\ call.pre.long = 0) =>
        /\ Nominal =>
            MarketOrders(call.orders) =
                << MarketBuy(call.pre.short, "SHORT"),
                   MarketBuy(call.amount, "LONG") >>
        /\ "initial_query" \notin call.failed =>
            \A i \in 1..Len(call.orders) :
                OpensLong(call.orders[i]) =>
                    /\ i = 2
                    /\ call.orders[1] = MarketBuy(call.pre.short, "SHORT")

C3_Witness ==
    /\ Returned("execute_trade") /\ LiveMode /\ call.action = "BUY"
    /\ call.pre = [long |-> 0, short |-> 2] /\ call.amount = 1
    /\ Nominal
    /\ call.orders = << MarketBuy(2, "SHORT"), MarketBuy(1, "LONG") >>
    /\ exchange = [long |-> 1, short |-> 0]

\* C4: in live mode, BUY called while the symbol is flat on both sides, every
\* exchange call answering, places exactly one market order, a buy of
\* `amount` tagged LONG, and returns success = true; with no stop-loss and no
\* take-profit supplied it is the only order of any kind.
C4_BuyFromFlatOpensOnce ==
    (Returned("execute_trade") /\ LiveMode /\ call.action = "BUY"
        /\ Flat(call.pre) /\ Nominal) =>
        /\ MarketOrders(call.orders) = << MarketBuy(call.amount, "LONG") >>
        /\ call.result.success
        /\ (~call.stop_loss /\ ~call.take_profit) =>
                call.orders = << MarketBuy(call.amount, "LONG") >>

C4_Witness ==
    /\ Returned("execute_trade") /\ LiveMode /\ call.action = "BUY"
    /\ Flat(call.pre) /\ Nominal /\ call.amount = 1
    /\ ~call.stop_loss /\ ~call.take_profit
    /\ call.orders = << MarketBuy(1, "LONG") >>
    /\ call.result.success
    /\ exchange = [long |-> 1, short |-> 0]

\* C5: in live mode no order that opens a long is placed while the account
\* already holds a long (symmetrically for short), and no closing order is
\* placed for a side that is flat.  Stated for calls whose exchange calls all
\* answer.
C5_NoDuplicateOrder ==
    (Returned("execute_trade") /\ LiveMode /\ Nominal) =>
        \A i \in 1..Len(call.orders) :
            LET o == call.orders[i]
            IN /\ OpensLong(o) => call.pre.long = 0
               /\ OpensShort(o) => call.pre.short = 0
               /\ ClosesLong(o) => call.pre.long > 0
               /\ ClosesShort(o) => call.pre.short > 0

\* C6: when the symbol holds both a long and a short, BUY in live mode fully
\* closes the short and places no new long order, and SELL fully closes the
\* long and places no new short order, whichever side is listed first.
\* Stated for calls whose exchange calls all answer.
C6_HedgeBothSides ==
    (Returned("execute_trade") /\ LiveMode /\ Nominal /\ BothSides(call.pre)) =>
        /\ call.action = "BUY" =>
            /\ MarketOrders(call.orders) = << MarketBuy(call.pre.short, "SHORT") >>
            /\ exchange = [long |-> call.pre.long, short |-> 0]
        /\ call.action = "SELL" =>
            /\ MarketOrders(call.orders) = << MarketSell(call.pre.long, "LONG") >>
            /\ exchange = [long |-> 0, short |-> call.pre.short]

\* C7: in live mode CLOSE_LONG with a long of size s places exactly one order,
\* a market sell of s tagged LONG, and leaves the short side untouched;
\* CLOSE_SHORT with a short of size s places exactly one market buy of s
\* tagged SHORT and leaves the long side untouched.  Stated for calls whose
\* exchange calls all answer.
C7_CloseOnlyNamedSide ==
    (Returned("execute_trade") /\ LiveMode /\ Nominal) =>
        /\ (call.action = "CLOSE_LONG" /\ call.pre.long > 0) =>
            /\ MarketOrders(call.orders) = << MarketSell(call.pre.long, "LONG") >>
            /\ exchange.short = call.pre.short
        /\ (call.action = "CLOSE_SHORT" /\ call.pre.short > 0) =>
            /\ MarketOrders(call.orders) = << MarketBuy(call.pre.short, "SHORT") >>
            /\ exchange.long = call.pre.long

\* C8: every execution no-op in live mode (CLOSE_LONG or CLOSE_SHORT on a flat
\* named side, BUY while already long, SELL while already short) places no
\* order and returns success = true.  Stated for calls whose exchange calls
\* all answer.
C8_NoOpIsSuccess ==
    (Returned("execute_trade") /\ LiveMode /\ Nominal
        /\ \/ call.action = "CLOSE_LONG" /\ call.pre.long = 0
           \/ call.action = "CLOSE_SHORT" /\ call.pre.short = 0
           \/ call.action = "BUY" /\ call.pre.long > 0
           \/ call.action = "SELL" /\ call.pre.short > 0) =>
        /\ call.orders = << >>
        /\ call.result.success

\* C9: execute_trade(HOLD), in every position state and in both modes,
\* returns success = true and makes no exchange call of any kind, neither an
\* order nor a query.
C9_HoldMakesNoExchangeCall ==
    (Returned("execute_trade") /\ call.action = "HOLD") =>
        /\ call.result.success
        /\ call.orders = << >>
        /\ call.queries = 0

\* C10 as stated: for every action value outside the known five,
\* execute_trade places no order, returns success = false with the message
\* naming the unknown action and raises nothing, whatever the mode.
C10_UnknownActionFailsInEveryMode ==
    (Returned("execute_trade") /\ call.action \notin KnownActions) =>
        /\ call.orders = << >>
        /\ ~call.result.success
        /\ call.result.message = "unknown_action"
        /\ ~call.result.raised

\* C10 amended: for every action value outside the known five, execute_trade
\* places no order, leaves the account as it was and raises nothing; in live
\* mode it returns success = false with the message naming the unknown
\* action, in test mode the synthetic success of the test-mode gate.
C10_UnknownActionFailsInLiveMode ==
    (Returned("execute_trade") /\ call.action \notin KnownActions) =>
        /\ call.orders = << >>
        /\ exchange = call.pre
        /\ ~call.result.raised
        /\ LiveMode => /\ ~call.result.success
                       /\ call.result.message = "unknown_action"
        /\ TestMode => /\ call.result.success
                       /\ call.result.message = "test_mode_simulated"

C10_Witness ==
    /\ Returned("execute_trade") /\ LiveMode /\ call.action = "CLOSE"
    /\ BothSides(call.pre)
    /\ ~call.result.success /\ call.result.message = "unknown_action"
    /\ call.orders = << >>

\* C11: execute_trade never lets an exception escape: for every action, every
\* position and every exchange failure (the position query raising, an order
\* call raising mid-sequence) it returns a result record carrying success,
\* action, symbol, amount, timestamp and a message.
C11_AlwaysReturnsResult ==
    Returned("execute_trade") =>
        /\ ~call.result.raised
        /\ {"success", "action", "symbol", "amount", "timestamp", "message"}
                \subseteq DOMAIN call.result
        /\ call.result.message # "none"
        /\ call.result.action = call.action
        /\ call.result.amount = call.amount
        /\ call.result.success \in BOOLEAN

\* A BUY from a short whose closing order is accepted and whose opening order
\* raises
C11_Witness ==
    /\ Returned("execute_trade") /\ LiveMode /\ call.action = "BUY"
    /\ call.failed = {"market_order"}
    /\ Len(call.orders) = 2
    /\ call.orders[1].accepted /\ ~call.orders[2].accepted
    /\ ~call.result.raised /\ call.result.message = "order_failed"

MirrorSide(side) ==
    IF side = "long" THEN "short" ELSE IF side = "short" THEN "long" ELSE side

MirrorAccount(ex) == [long |-> ex.short, short |-> ex.long]

MirrorOrder(o) ==
    [o EXCEPT !.side = IF @ = "buy" THEN "sell" ELSE "buy",
              !.positionSide = IF @ = "LONG" THEN "SHORT"
                               ELSE IF @ = "SHORT" THEN "LONG" ELSE @]

MirrorOrders(log) == [i \in 1..Len(log) |-> MirrorOrder(log[i])]

MirrorMessage(m) ==
    IF m = "already_long" THEN "already_short"
    ELSE IF m = "already_short" THEN "already_long" ELSE m

MirrorResult(r) ==
    [r EXCEPT !.action = IF @ = "BUY" THEN "SELL" ELSE IF @ = "SELL" THEN "BUY" ELSE @,
              !.message = MirrorMessage(@),
              !.new_position = [@ EXCEPT !.side = MirrorSide(@)]]

\* C12: SELL is the exact mirror of BUY: the orders execute_trade(SELL) places
\* and the result it returns are those of execute_trade(BUY) on the account
\* with the long and short sizes exchanged, with long/short and buy/sell
\* swapped.  Stated for live calls whose exchange calls all answer, the
\* exchange listing its entries in the same order for both.
C12_SellMirrorsBuy ==
    (Returned("execute_trade") /\ LiveMode /\ Nominal /\ call.action = "SELL") =>
        LET buy == ExecuteTradeOp(test_mode, MirrorAccount(call.pre), listedFirst,
                                  << >>, "BUY", call.amount, call.stop_loss,
                                  call.take_profit, {}, 0, 0)
        IN /\ call.orders = MirrorOrders(buy.orders)
           /\ call.result = MirrorResult(buy.result)
           /\ exchange = MirrorAccount(buy.ex)

ConditionalOrders(log) == SelectSeq(log, LAMBDA o : o.type # "MARKET")

\* The protective orders C13 describes for the side the triggering order
\* acted on, given that side's size after the order
ProtectiveOrders(side, size, stop_loss, take_profit) ==
    LET closeSide == IF side = "long" THEN "sell" ELSE "buy"
        tag == IF side = "long" THEN "LONG" ELSE "SHORT"
    IN IF size = 0 THEN << >>
       ELSE (IF stop_loss
             THEN << Order("STOP_MARKET", closeSide, size, tag) >> ELSE << >>)
            \o (IF take_profit
                THEN << Order("TAKE_PROFIT_MARKET", closeSide, size, tag) >>
                ELSE << >>)

\* C13: after a position-changing order succeeds with a stop-loss and/or a
\* take-profit supplied, each supplied level yields exactly one conditional
\* order, sized to the position that results from the triggering order,
\* tagged to that position's side and closing it; none is placed when the
\* resulting position is flat.  Stated for live calls whose exchange calls
\* all answer.
C13_ProtectiveOrdersMatchPosition ==
    (Returned("execute_trade") /\ LiveMode /\ Nominal
        /\ (call.stop_loss \/ call.take_profit)
        /\ call.result.message = "order_executed") =>
        LET market == MarketOrders(call.orders)
            trigger == market[Len(market)]
            side == IF trigger.positionSide = "LONG" THEN "long" ELSE "short"
        IN ConditionalOrders(call.orders) =
               ProtectiveOrders(side, exchange[side], call.stop_loss,
                                call.take_profit)

\* C14: when attaching a stop-loss or take-profit order fails after the
\* triggering order succeeded, execute_trade still returns success = true
\* with the triggering order's id, raises nothing, and the trade is recorded
\* in trade_history.
C14_StopFailureKeepsSuccess ==
    (Returned("execute_trade") /\ LiveMode
        /\ call.failed \cap {"stop_order", "stops_query"} # {}) =>
        /\ call.result.success
        /\ call.result.order_id = "id"
        /\ call.result.message = "order_executed"
        /\ ~call.result.raised
        /\ trade_history # << >>
        /\ trade_history[Len(trade_history)] =
                [op |-> "execute_trade", action |-> call.action]

\* An open-long whose take-profit order is refused after its stop-loss order
\* was accepted
C14_Witness ==
    /\ Returned("execute_trade") /\ LiveMode /\ call.action = "BUY"
    /\ Flat(call.pre) /\ call.stop_loss /\ call.take_profit
    /\ call.failed = {"stop_order"}
    /\ Len(call.orders) = 3
    /\ call.orders[2].accepted /\ ~call.orders[3].accepted
    /\ call.result.success
    /\ Len(trade_history) = 1

\* The error's lower-cased message contains an entry of the vocabulary
RetryableError(message) ==
    \E entry \in RetryableVocabulary : Contains(entry, StrLower(message))

AllRetryable(messages) ==
    \A i \in 1..Len(messages) : RetryableError(messages[i])

Finished == retry.pc \in {"returned", "raised"}

\* C15: when the wrapped operation raises a retryable error on every attempt,
\* llm_retry invokes it exactly max_retries + 1 times and then re-raises the
\* last retryable error; it never invokes the operation more than
\* max_retries + 1 times.
C15_ExhaustsRetriesThenReraises ==
    /\ retry.invocations <= retry.max_retries + 1
    /\ (retry.raised # << >> /\ AllRetryable(retry.raised)) =>
          /\ retry.pc # "returned" => retry.invocations = Len(retry.raised)
          /\ retry.pc = "running" => retry.invocations <= retry.max_retries
          /\ retry.pc = "raised" =>
                /\ retry.invocations = retry.max_retries + 1
                /\ retry.error = retry.raised[Len(retry.raised)]

\* Every attempt of a call with the largest max_retries raised a retryable
\* error, the last one "TIMEOUT"
C15_Witness ==
    /\ retry.pc = "raised"
    /\ retry.max_retries = MaxRetries
    /\ Len(retry.raised) = MaxRetries + 1
    /\ AllRetryable(retry.raised)
    /\ retry.error = <<"T", "I", "M", "E", "O", "U", "T">>
    /\ retry.raised[1] # retry.error

\* C16: llm_retry retries an attempt only when the raised error's lower-cased
\* message contains an entry of the retryable vocabulary; an error matching
\* none is re-raised at once, with no delay and no further invocation, also
\* after earlier retryable failures.
C16_FatalErrorRaisedAtOnce ==
    \A i \in 1..Len(retry.raised) :
        ~RetryableError(retry.raised[i]) =>
            /\ i = Len(retry.raised)
            /\ retry.pc = "raised"
            /\ retry.error = retry.raised[i]
            /\ retry.invocations = i
            /\ Len(retry.delays) = i - 1

\* "invalid api key" raised on the third invocation, after two retried errors
C16_Witness ==
    /\ retry.pc = "raised"
    /\ Len(retry.raised) = 3
    /\ retry.max_retries >= 2
    /\ RetryableError(retry.raised[1]) /\ RetryableError(retry.raised[2])
    /\ ~RetryableError(retry.raised[3])
    /\ retry.error = retry.raised[3]
    /\ Len(retry.delays) = 2

\* C17: the delay between attempt i and attempt i+1 (i from 0) is
\* base_delay * backoff_factor^i; for base_delay > 0 and backoff_factor > 1
\* the delays of one call are strictly increasing; no delay is waited after
\* the final attempt.
C17_ExponentialBackoff ==
    /\ \A i \in 1..Len(retry.delays) :
          retry.delays[i] = retry.base_delay * Pow(retry.backoff_factor, i - 1)
    /\ (retry.base_delay > 0 /\ retry.backoff_factor > 1) =>
          \A i \in 1..(Len(retry.delays) - 1) :
              retry.delays[i] < retry.delays[i + 1]
    /\ retry.pc = "running" => Len(retry.delays) = retry.invocations
    /\ (Finished /\ retry.invocations > 0) =>
          Len(retry.delays) = retry.invocations - 1

\* A call that slept twice with a positive base delay and a factor above one
C17_Witness ==
    /\ Finished
    /\ retry.base_delay > 0 /\ retry.backoff_factor > 1
    /\ retry.invocations = 3
    /\ Len(retry.delays) = 2
    /\ retry.delays[1] = retry.base_delay
    /\ retry.delays[2] = retry.base_delay * retry.backoff_factor

AtStage(analyst, tools) == simple.node \in {analyst, tools}

\* The steps C18 allows out of an analyst stage's nodes
StageStep(analyst, tools, clear, next, report, report_after) ==
    /\ simple.node = analyst =>
          LET response == Last(simple'.messages)
          IN /\ response.role = "ai"
             /\ response.tool_calls = 0 =>
                    simple'.node = clear /\ report_after = response.content
             /\ response.tool_calls > 0 => simple'.node = tools
    /\ simple.node = tools => simple'.node = analyst
    /\ simple.node = clear => simple'.node = next
    /\ simple'.node = tools => simple.node = analyst
    /\ simple.node = clear => report_after = report

C18_Step ==
    /\ StageStep("Market Analyst", "tools_market", "delete_market",
                 "Crypto Analyst", simple.market_report, simple'.market_report)
    /\ StageStep("Crypto Analyst", "tools_crypto", "delete_crypto", "Trader",
                 simple.crypto_analysis_report, simple'.crypto_analysis_report)

\* C18: an analyst stage's LLM-tool sub-loop leaves the stage the first time
\* an LLM response carries zero tool calls: that response becomes the
\* stage's report, the tool node is not invoked again and control moves to
\* the message-clear step and on to the next stage; while a response carries
\* tool calls, control goes to the tool node and back to the same analyst.
C18_LoopLeavesOnFirstPlainResponse == [][C18_Step]_vars

\* The crypto analyst's stage is left after a tool round: the last message
\* is a response without tool calls, it follows a tool message and it is the
\* stage's report
C18_Witness ==
    /\ simple.node = "delete_crypto"
    /\ Len(simple.messages) >= 2
    /\ simple.messages[Len(simple.messages) - 1].role = "tool"
    /\ Last(simple.messages).tool_calls = 0
    /\ simple.crypto_analysis_report = "report"
    /\ simple.crypto_analysis_report = Last(simple.messages).content

\* C19: an analyst stage's LLM-tool sub-loop terminates even when every LLM
\* response requests tools: the stage is eventually left.
C19_ToolLoopTerminates ==
    /\ AtStage("Market Analyst", "tools_market")
          ~> ~AtStage("Market Analyst", "tools_market")
    /\ AtStage("Crypto Analyst", "tools_crypto")
          ~> ~AtStage("Crypto Analyst", "tools_crypto")

DebateTurns == SelectSeq(graph.speakers, LAMBDA who : who \in {"Bull", "Bear"})

\* C20: for the configured max_debate_rounds = R, a run performs at most 2R
\* Bull and Bear turns in total before the Research Manager judges, and once
\* round_count >= 2R the next node is the Research Manager, whoever's turn
\* would be next.
C20_DebateBoundedByConfiguredRounds ==
    /\ Len(DebateTurns) <= 2 * graph.max_debate_rounds
    /\ (graph.node \in {"Bull Researcher", "Bear Researcher"}) =>
          graph.investment_debate_state.count < 2 * graph.max_debate_rounds

RiskTurns ==
    SelectSeq(graph.speakers, LAMBDA who : who \in {"Risky", "Safe", "Neutral"})

\* C21: for the configured max_risk_discuss_rounds = R, a run performs at
\* most 3R Risky, Safe and Neutral turns in total before the Risk Judge
\* decides, and once round_count >= 3R the next node is the Risk Judge.
C21_RiskReviewBoundedByConfiguredRounds ==
    /\ Len(RiskTurns) <= 3 * graph.max_risk_discuss_rounds
    /\ (graph.node \in {"Risky Analyst", "Safe Analyst", "Neutral Analyst"}) =>
          graph.risk_debate_state.count < 3 * graph.max_risk_discuss_rounds

\* The position of the stage a graph state is in, along the pipeline
StageRank(g) ==
    LET n == Len(g.selected)
    IN CASE g.node \in {"idle", "constructed"} -> 0
         [] g.stage \in 1..n -> g.stage
         [] g.node \in {"Bull Researcher", "Bear Researcher"} -> n + 1
         [] g.node = "Research Manager" -> n + 2
         [] g.node = "Trader" -> n + 3
         [] g.node \in {"Risky Analyst", "Safe Analyst", "Neutral Analyst"} -> n + 4
         [] g.node = "Risk Judge" -> n + 5
         [] g.node = "END" -> n + 6
         [] OTHER -> n + 7

StageNodes(analyst_type) ==
    {AnalystName(analyst_type), ToolsName(analyst_type), ClearName(analyst_type)}

C22_Step ==
    (graph.node # "idle") =>
        /\ StageRank(graph') \in {StageRank(graph), StageRank(graph) + 1}
        /\ StageRank(graph') <= Len(graph.selected) + 6
        /\ graph'.stage \in 1..Len(graph.selected) =>
              graph'.node \in StageNodes(graph.selected[graph'.stage])
        /\ (graph.stage \in 1..Len(graph.selected)
                /\ StageRank(graph') = StageRank(graph) + 1) =>
              graph.node = ClearName(graph.selected[graph.stage])
        /\ graph.node = "Trader" => graph'.node # "Trader"
        /\ graph'.node = "END" => graph'.final_trade_decision.written

AnalystLoopsTerminate == []<>(graph.stage = 0)

DebateOrder == << "Bull", "Bear" >>

RiskOrder == << "Risky", "Safe", "Neutral" >>

\* C23: the debate starts with Bull and strictly alternates Bull, Bear, ...;
\* the risk review starts with Risky and cycles Risky, Safe, Neutral, ...;
\* each role is followed only by its successor or by the judge.
C23_TurnOrderFixed ==
    /\ \A i \in 1..Len(DebateTurns) :
          DebateTurns[i] = DebateOrder[((i - 1) % 2) + 1]
    /\ \A i \in 1..Len(RiskTurns) :
          RiskTurns[i] = RiskOrder[((i - 1) % 3) + 1]
    /\ graph.node = "Bull Researcher" => Len(DebateTurns) % 2 = 0
    /\ graph.node = "Bear Researcher" => Len(DebateTurns) % 2 = 1
    /\ graph.node = "Risky Analyst" => Len(RiskTurns) % 3 = 0
    /\ graph.node = "Safe Analyst" => Len(RiskTurns) % 3 = 1
    /\ graph.node = "Neutral Analyst" => Len(RiskTurns) % 3 = 2

\* Two full rounds of each loop were taken: Bull, Bear, Bull, Bear and
\* Risky, Safe, Neutral, Risky, Safe, Neutral
C23_Witness ==
    /\ graph.node = "Risk Judge"
    /\ Len(DebateTurns) = 4
    /\ Len(RiskTurns) = 6
    /\ DebateTurns[3] = "Bull"
    /\ RiskTurns[4] = "Risky"

----------------------------------------------------------------------------
(* Properties of the decision hand-off *)

\* The text ends with the marker of action a and carries no other marker
EndsWithOnlyMarker(decision, a) ==
    /\ Len(decision) >= 3
    /\ SubSeq(decision, Len(decision) - 2, Len(decision)) = Marker(a)
    /\ Cardinality(MarkerPositions(decision)) = 1

\* The actions the markers of a text name
MarkedActions(decision) ==
    {decision[i + 1] : i \in {k \in MarkerPositions(decision) : k < Len(decision)}}

HasBullish(decision) ==
    Contains(Word("BUY"), decision) \/ Contains(Word("go_long"), decision)

HasBearish(decision) ==
    Contains(Word("SELL"), decision) \/ Contains(Word("go_short"), decision)

\* A text was handed over and the graph went on to read it
Extracted ==
    /\ handoff.caller # "none"
    /\ handoff.auto_execute
    /\ handoff.caller = "graph" => handoff.decision # << >>

\* Nothing was asked of the executor and the account is as it was
NothingExecuted ==
    /\ handoff.method = "none"
    /\ call = NoCall
    /\ exchange = handoff.pre
    /\ trade_history = << >>

\* C24: a decision text that ends with exactly one of the four final-decision
\* markers is mapped to that marker's action (BUY, SELL, HOLD or CLOSE),
\* whatever words come before the marker.
C24_FinalMarkerDecides ==
    Extracted =>
        \A a \in {"BUY", "SELL", "HOLD", "CLOSE"} :
            EndsWithOnlyMarker(handoff.decision, a) => handoff.action = a

C26_BothKeywordsGiveBuy ==
    (Extracted /\ handoff.caller = "graph"
        /\ HasBullish(handoff.decision) /\ HasBearish(handoff.decision))
        => handoff.action = "BUY"

C26_Witness ==
    /\ Extracted
    /\ handoff.caller = "graph"
    /\ handoff.decision = << "go_short", "BUY" >>
    /\ handoff.action = "BUY"
    /\ handoff.method = "execute_trade"

\* C27: a text whose markers are missing or contradict each other is resolved
\* to HOLD, and no exchange order results from it.
C27_AmbiguousTextIsHold ==
    (Extracted /\ Cardinality(MarkedActions(handoff.decision)) # 1)
        => (handoff.action = "HOLD" /\ call.orders = << >>)

\* C28: with auto_execute on and test mode off, execute_trade of the simple
\* graph turns the BUY marker into an open-long order of position_size, the
\* SELL marker into an open-short order of position_size, and the CLOSE marker
\* into a close of the open position (nothing when flat).
C28_SimpleActionReachesExecutor ==
    (handoff.caller = "simple" /\ handoff.auto_execute /\ test_mode = "False")
        => /\ handoff.action = "BUY" =>
                \E i \in 1..Len(call.orders) :
                    /\ call.orders[i].side = "buy"
                    /\ call.orders[i].size = handoff.position_size
                    /\ exchange.long >= handoff.position_size
           /\ handoff.action = "SELL" =>
                \E i \in 1..Len(call.orders) :
                    /\ call.orders[i].side = "sell"
                    /\ call.orders[i].size = handoff.position_size
                    /\ exchange.short >= handoff.position_size
           /\ handoff.action = "CLOSE" =>
                IF handoff.pre.long = 0 /\ handoff.pre.short = 0
                THEN call.orders = << >> /\ exchange = handoff.pre
                ELSE Len(call.orders) = 1

----------------------------------------------------------------------------
(* Properties of a run whose LLM calls fail *)

\* propagate raised to its caller
RunRaised == run.phase = "raised"

\* The error that left the run is one the retry policy retries
RaisedTransient == IsRetryable(ErrorStr(run.error))

\* C29: every LLM invocation of a stage goes through the retry policy: no
\* run is aborted by a retryable error at its first occurrence; the call is
\* repeated, with the backoff delays, until the retries are used up.
C29_EveryStageRetries ==
    (RunRaised /\ RaisedTransient)
        => /\ run.invocations = StageMaxRetries + 1
           /\ retry.delays =
                [i \in 1..StageMaxRetries |->
                    Delay(StageBaseDelay, StageBackoffFactor, i - 1)]

\* C30: when an LLM invocation raises a non-retryable error or has used up
\* its retries, the run aborts at once: propagate raises that error, no later
\* stage has run, no audit record of the run is written, no order is placed
\* and curr_state is what it was before the run.
C30_AbortLeavesNothingBehind ==
    (RunRaised /\ (~RaisedTransient \/ run.invocations = StageMaxRetries + 1))
        => /\ run.error # << >>
           /\ UsesRetry(RunStages[run.stage]) =>
                /\ Len(retry.raised) = run.invocations
                /\ retry.raised[Len(retry.raised)] = run.error
                /\ \A i \in 1..(Len(retry.raised) - 1) :
                        IsRetryable(ErrorStr(retry.raised[i]))
           /\ run.ran = SubSeq(RunStages, 1, run.stage - 1)
           /\ run.curr_state = run.pre.curr_state
           /\ run.runs \notin run.log_states_dict
           /\ exchange = run.pre.exchange
           /\ trade_history = run.pre.trade_history
           /\ call = NoCall
           /\ handoff.caller = "none"

\* The second run, after a first one that bought, is aborted by a transient
\* error that used up the retries of a stage after the first
C30_Witness ==
    /\ RunRaised
    /\ RaisedTransient
    /\ run.invocations = StageMaxRetries + 1
    /\ run.runs = 2
    /\ run.stage > 1
    /\ run.curr_state = 1
    /\ run.log_states_dict = {1}
    /\ exchange.long > 0

----------------------------------------------------------------------------
(* Properties of the executor under failures and of close_all_positions *)

\* The market orders of the call that the exchange accepted
AcceptedMarketOrders ==
    SelectSeq(call.orders, LAMBDA o : o.type = "MARKET" /\ o.accepted)

\* C35: the success flag of a live-mode execute_trade result matches what
\* happened on the exchange: when the result has success = false, no
\* position-changing order was accepted during the call and the account is as
\* it was, also when a BUY or SELL flip fails between its two orders.
C35_FailureMeansNoOrderAccepted ==
    (Returned("execute_trade") /\ LiveMode /\ ~call.result.success) =>
        /\ AcceptedMarketOrders = << >>
        /\ exchange = call.pre

\* C36: when the position query at the start of a live-mode execute_trade
\* raises, BUY and SELL place no opening order: the unknown position is not
\* taken for a flat account.
C36_FailedQueryOpensNothing ==
    (Returned("execute_trade") /\ LiveMode
        /\ "initial_query" \in call.failed /\ call.action \in {"BUY", "SELL"}) =>
        \A i \in 1..Len(call.orders) :
            ~OpensLong(call.orders[i]) /\ ~OpensShort(call.orders[i])

\* C38: after close_all_positions in live mode, every exchange call
\* answering, the symbol is flat on the long side and on the short side,
\* also when both sides were open before.
C38_CloseAllLeavesFlat ==
    (Returned("close_all_positions") /\ LiveMode /\ Nominal) => Flat(exchange)

----------------------------------------------------------------------------
(* Properties of the exchange-account setup *)

\* C34: exchange-account setup is non-fatal: setup_exchange never raises; a
\* failure of the hedge-mode toggle alone is swallowed, leverage is still set
\* and True is returned; a failure of set_leverage or of the balance query
\* makes it return False; and the constructor of the graph goes on to build
\* the graph whatever setup_exchange returned.
C34_SetupIsNonFatal ==
    setup.called =>
        /\ ~setup.raised
        /\ setup.returned \in {"True", "False"}
        /\ "leverage" \notin setup.failed => setup.leverage_set
        /\ setup.failed \subseteq {"hedge_mode"} =>
                (setup.leverage_set /\ setup.returned = "True")
        /\ setup.failed \cap {"leverage", "balance"} # {} =>
                setup.returned = "False"
        /\ pc = "ready"
        /\ setup.graph_built

\* The hedge-mode toggle alone raised while a live-mode graph was constructed
C34_Witness ==
    /\ setup.called
    /\ LiveMode
    /\ setup.failed = {"hedge_mode"}
    /\ ~setup.hedge_mode
    /\ setup.leverage_set
    /\ setup.returned = "True"
    /\ setup.graph_built

----------------------------------------------------------------------------
(* Properties of the auto_execute switch *)

\* C37: with auto_execute off, no executor operation is invoked whatever the
\* decision text says: propagate skips the execution step and execute_trade
\* of the simple graph returns before it parses the text.
C37_AutoExecuteOffExecutesNothing ==
    (handoff.caller # "none" /\ ~handoff.auto_execute) =>
        /\ handoff.action = "none"
        /\ NothingExecuted

\* A text carrying the BUY marker, handed over by propagate in live mode with
\* auto_execute off
C37_Witness ==
    /\ handoff.caller = "graph"
    /\ ~handoff.auto_execute
    /\ LiveMode
    /\ handoff.decision = Marker("BUY")
    /\ handoff.method = "none"
    /\ call.orders = << >>

----------------------------------------------------------------------------
(* Properties of the order of propagate's last steps *)

\* The execution step of the run has started
ExecutionStarted == handoff.caller = "graph"

\* The account or the order log shows an order of the current run
OrderPlacedInRun ==
    \/ call.orders # << >>
    \/ exchange # run.pre.exchange
    \/ trade_history # run.pre.trade_history

\* C39: in propagate no order is placed before the Risk Judge has produced
\* final_trade_decision, and the audit record of the run is written before
\* the execution step starts: whenever execution has started or an order has
\* been placed, also an order that raised, the Risk Judge has run, the
\* decision is written and the JSON file of the run exists.
C39_JudgeAndAuditBeforeExecution ==
    (run.runs > 0 /\ (ExecutionStarted \/ OrderPlacedInRun)) =>
        /\ run.ran = RunStages
        /\ run.final_trade_decision.written
        /\ run.runs \in run.log_states_dict
        /\ run.runs \in run.log_files
        /\ run.curr_state = run.runs

\* The order of the run's BUY raised; the audit record exists
C39_Witness ==
    /\ run.phase = "returned"
    /\ LiveMode
    /\ handoff.action = "BUY"
    /\ call.failed = {"market_order"}
    /\ ~call.result.success
    /\ run.runs \in run.log_files

----------------------------------------------------------------------------
(* Properties of the shared graph state of the simple graph *)

\* The nodes that stand at the boundary after an analyst's sub-loop
BoundaryNodes == {"delete_market", "delete_crypto"}

\* A step that leaves a boundary node hands an empty history to the next stage
C32_Step ==
    (simple.node \in BoundaryNodes /\ simple'.node # simple.node)
        => simple'.messages = << >>

\* C32: when control enters a stage after an analyst stage has finished, the
\* message history holds no message of that analyst's sub-loop: it is empty
\* at every stage boundary.
C32_HistoryEmptyAtStageBoundary == [][C32_Step]_vars

----------------------------------------------------------------------------
(* Properties of the report and decision fields of the full pipeline *)

\* The node that owns each field
FieldOwner ==
    [market_report |-> "Market Analyst",
     crypto_analysis_report |-> "Crypto Analyst",
     trader_investment_plan |-> "Trader",
     final_trade_decision |-> "Risk Judge"]

\* The field holds its stage's final text
FieldFinal(g, field) ==
    IF field = "final_trade_decision" THEN g[field].written ELSE g[field] # ""

\* A step of a run changes a field only while the owning node runs, and
\* never once the field holds the final text
C33_Step ==
    \A field \in DOMAIN FieldOwner :
        (graph.node # "idle" /\ graph'[field] # graph[field]) =>
            /\ graph.node = FieldOwner[field]
            /\ ~FieldFinal(graph, field)

\* C33: within one run each report or decision field (market_report,
\* crypto_analysis_report, trader_investment_plan, final_trade_decision) is
\* written only by its owning stage, and once it holds that stage's final
\* non-empty text no later step of the run changes it.
C33_FieldsWrittenOnceByOwner == [][C33_Step]_vars

\* A finished run of the default analysts in which the crypto analyst first
\* asked for tools: every field holds its final text
C33_Witness ==
    /\ graph.node = "END"
    /\ Len(graph.selected) = 4
    /\ graph.market_report = "other report"
    /\ graph.crypto_analysis_report = "report"
    /\ graph.trader_investment_plan = "report"
    /\ graph.final_trade_decision.written
    /\ graph.final_trade_decision.text = Marker("BUY")

----------------------------------------------------------------------------
(* Properties of overlapping calls of execute_trade *)

\* The callers that have entered execute_trade
Started == {p \in Callers : callers[p].pc # "idle"}

\* The callers that have placed an order opening a long
OpenedLong ==
    {p \in Callers :
        \E i \in 1..Len(callers[p].orders) : OpensLong(callers[p].orders[i])}

\* Each call started after the calls before it had returned
Serialized ==
    \A p, q \in Started :
        p # q => (q \in callers[p].before \/ p \in callers[q].before)

\* C31: execute_trade holds no lock.  Live-mode BUY calls on a flat symbol
\* that are serialized, each starting after the previous call has returned
\* and its order has settled, place at most one open-long order, and the
\* long is that one order's amount; overlapping calls can both place one
\* (the state of C31_Witness).
C31_SerializedCallsOpenOnce ==
    (LiveMode /\ Serialized) =>
        /\ Cardinality(OpenedLong) <= 1
        /\ \A p \in OpenedLong : exchange = [long |-> callers[p].amount, short |-> 0]
        /\ \A p \in Started \ OpenedLong :
                callers[p].pc = "returned" => callers[p].message = "already_long"

\* Two overlapping calls: each read the flat position before the other's
\* order had settled, and both placed an open-long order
C31_Witness ==
    /\ LiveMode
    /\ ~Serialized
    /\ Cardinality(OpenedLong) = 2
    /\ \A p \in OpenedLong : IsNone(callers[p].current_position)
    /\ exchange.long = callers[1].amount + callers[2].amount
    /\ Len(trade_history) = 2

===============================================================================
